---- MODULE Spec2Model ----
(***************************************************************************)
(* A model of xmlplot/plot.py: the Figure update engine (update           *)
(* coalescing, the per-series loop of Figure.update, the source registry) *)
(* and the variable transforms that Figure.update drives.                 *)
(*                                                                         *)
(* Numbers that may be fractional in the program (coordinates, slice      *)
(* values) are kept as integers in half units: the model's 2 is the       *)
(* program's 1.0, the model's 1 is the program's 0.5.                     *)
(***************************************************************************)
EXTENDS Integers, Sequences, FiniteSets, TLC

VARIABLES updating, dirty, haschanged, callbacks, sources, defaultsource,
          forcedseries, defaultseries, defaulttitle, forcedaxes, defaultaxes,
          canvas, out, requests, call, ret

vars == <<updating, dirty, haschanged, callbacks, sources, defaultsource,
          forcedseries, defaultseries, defaulttitle, forcedaxes, defaultaxes,
          canvas, out, requests, call, ret>>

figvars == <<updating, dirty, haschanged, callbacks, sources, defaultsource,
             forcedseries, defaultseries, defaulttitle, forcedaxes, defaultaxes,
             canvas, out, requests>>

None == "None"

(* ---- bounds of the model ---------------------------------------------- *)
MaxSeries == 2
MaxCallbacks == 1
MaxRequests == 2
MaxLen == 3
MaxCoord == 3

(* ---- small helpers ----------------------------------------------------- *)
Range(s) == {s[i] : i \in DOMAIN s}

RECURSIVE SeqMin(_)
SeqMin(s) ==
    IF Len(s) = 1 THEN s[1]
    ELSE LET m == SeqMin(Tail(s)) IN IF s[1] < m THEN s[1] ELSE m

RECURSIVE SeqMax(_)
SeqMax(s) ==
    IF Len(s) = 1 THEN s[1]
    ELSE LET m == SeqMax(Tail(s)) IN IF s[1] > m THEN s[1] ELSE m

\* An optional array: Python's None, or an array with its values.
\* nd is the array's number of dimensions (coordinates are 1-D vectors, or
\* n-D arrays shaped like the data).
NoArr == [set |-> FALSE, nd |-> 0, v |-> <<>>]
Arr(v) == [set |-> TRUE, nd |-> 1, v |-> v]

\* An optional number: Python's None, or a number.
NoNum == [set |-> FALSE, v |-> 0]
Num(x) == [set |-> TRUE, v |-> x]

SetMin(S) == CHOOSE x \in S : \A y \in S : x <= y
SetMax(S) == CHOOSE x \in S : \A y \in S : x >= y

\* An n-dimensional array: its shape and one value per index tuple.
Idx(shape) ==
    LET extent == IF Len(shape) = 0 THEN 0 ELSE SeqMax(shape) IN
    {t \in [1..Len(shape) -> 1..extent] : \A k \in 1..Len(shape) : t[k] <= shape[k]}

NoData == [set |-> FALSE, shape |-> <<>>, v |-> <<>>]
Data(shape, v) == [set |-> TRUE, shape |-> shape, v |-> v]

\* The sequence s without its i-th element.
RemoveAt(s, i) == [k \in 1..(Len(s) - 1) |-> IF k < i THEN s[k] ELSE s[k + 1]]
\* The sequence s with e inserted before its i-th element.
InsertBefore(s, i, e) ==
    [k \in 1..(Len(s) + 1) |-> IF k < i THEN s[k] ELSE IF k = i THEN e ELSE s[k - 1]]
\* list.insert: a position past the end of the list appends.
InsertAt(s, i, e) == InsertBefore(s, IF i > Len(s) + 1 THEN Len(s) + 1 ELSE i, e)

(* ---- Variable.Slice ---------------------------------------------------- *)
\* Slice(dimensions): the constructor: no data, every coordinate entry None.
NewSlice(dimensions) ==
    [dimensions  |-> dimensions,
     ndim        |-> Len(dimensions),
     data        |-> NoData,
     coords      |-> [i \in 1..Len(dimensions) |-> NoArr],
     coords_stag |-> [i \in 1..Len(dimensions) |-> NoArr]]

isValid(s) ==
    /\ s.ndim > 0
    /\ s.data.set
    /\ \A i \in DOMAIN s.coords : s.coords[i].set
    /\ \A i \in DOMAIN s.coords_stag : s.coords_stag[i].set

\* common.getCenters(c, addends=True): interface coordinates of the centres
\* c by the mid-point rule, with both ends extrapolated by half a cell.
getCenters(c) ==
    LET n == Len(c) IN
    [i \in 1..(n + 1) |->
        IF i = 1 THEN c[1] - (c[2] - c[1]) \div 2
        ELSE IF i = n + 1 THEN c[n] + (c[n] - c[n - 1]) \div 2
        ELSE (c[i - 1] + c[i]) \div 2]

\* Slice.generateStaggered: the interface coordinates of every dimension from
\* its centre coordinates; [status, slice].  common.getCenters takes the end
\* cells from the first and the last pair of centres and fails on fewer than
\* two (IndexError).
generateStaggered_Centres(s) ==
    IF \E i \in 1..s.ndim : ~s.coords[i].set \/ s.coords[i].nd # 1
    THEN [status |-> "AssertionError", slice |-> s]
    ELSE [status |-> "ok", slice |-> [s EXCEPT !.coords_stag = s.coords]]

generateStaggered(s) ==
    IF \E i \in 1..s.ndim : ~s.coords[i].set \/ s.coords[i].nd # 1
    THEN [status |-> "AssertionError", slice |-> s]
    ELSE IF \E i \in 1..s.ndim : Len(s.coords[i].v) < 2
    THEN [status |-> "IndexError", slice |-> s]
    ELSE [status |-> "ok",
          slice |-> [s EXCEPT !.coords_stag =
                        [i \in 1..s.ndim |-> Arr(getCenters(s.coords[i].v))]]]

\* 1, 2, ..., n as a sequence.
Iota(n) == [i \in 1..n |-> i]

\* numpy's array.squeeze(): the axes of length one are dropped.
arraysqueeze(d) ==
    LET n == Len(d.shape)
        kept == SelectSeq(Iota(n), LAMBDA i : d.shape[i] # 1)
        shape == [k \in 1..Len(kept) |-> d.shape[kept[k]]]
    IN  Data(shape,
             [t \in Idx(shape) |->
                 d.v[[i \in 1..n |->
                     IF \E k \in 1..Len(kept) : kept[k] = i
                     THEN t[CHOOSE k \in 1..Len(kept) : kept[k] = i]
                     ELSE 1]]])

squeeze(s) ==
    LET gooddimindices == SelectSeq(Iota(s.ndim), LAMBDA i : s.data.shape[i] > 1)
        singletons == SelectSeq(Iota(s.ndim), LAMBDA i : s.data.shape[i] = 1)
    IN
    [dimensions  |-> [k \in 1..Len(gooddimindices) |-> s.dimensions[gooddimindices[k]]],
     ndim        |-> Len(gooddimindices),
     data        |-> arraysqueeze(s.data),
     coords      |-> [k \in 1..Len(gooddimindices) |-> s.coords[gooddimindices[k]]],
     coords_stag |-> [k \in 1..Len(gooddimindices) |-> s.coords_stag[gooddimindices[k]]],
     fixedcoords |-> [k \in 1..Len(singletons) |->
                        <<s.dimensions[singletons[k]], s.coords[singletons[k]].v[1]>>]]

(* ---- Variables --------------------------------------------------------- *)
\* A variable is a record tagged by its class:
\*   "plain"  a variable of a backing store; slice is what its getSlice gives
\*   "merged" MergedVariableStore.MergedVariable
\*   "slice"  VariableSlice
\*   "none"   Python's None (no variable)
NoVar == [kind |-> "none"]

PlainVariable(name, longname, dims, slice) ==
    [kind |-> "plain", name |-> name, longname |-> longname, dims |-> dims,
     slice |-> slice]

MergedVariable(variables, mergedimid) ==
    [kind |-> "merged", vars |-> variables, mergedimid |-> mergedimid]

RECURSIVE getDimensions(_)
getDimensions(var) ==
    CASE var.kind = "plain"  -> var.dims
      [] var.kind = "merged" -> <<var.mergedimid>> \o getDimensions(var.vars[1])
      [] var.kind \in {"slice", "average", "flat"} ->
            SelectSeq(getDimensions(var.sourcevar), LAMBDA d : d # var.dimension)

RECURSIVE getLongName(_)
getLongName(var) ==
    CASE var.kind = "plain"  -> var.longname
      [] var.kind = "merged" -> getLongName(var.vars[1])
      [] var.kind \in {"slice", "average", "flat"} -> var.longname

\* VariableReduceDimension.__init__ as called by VariableSlice.__init__: the
\* position of the dimension in the source's list; status is the error raised
\* when the dimension is not there.
VariableSlice(variable, slicedimension, slicecoordinate) ==
    LET dims == getDimensions(variable)
        found == {i \in 1..Len(dims) : dims[i] = slicedimension}
    IN  IF found = {}
        THEN [status |-> "AssertionError", var |-> NoVar]
        ELSE [status |-> "ok",
              var |-> [kind |-> "slice", sourcevar |-> variable,
                       longname |-> getLongName(variable),
                       dimension |-> slicedimension,
                       sliceval |-> slicecoordinate,
                       idimension |-> SetMin(found)]]

\* getDimensionInfo(dimname)['label'] of a variable: the stores of the model
\* give the base class's empty label, a merged store the name of its merge
\* dimension (the default, 'observation'); a transform asks its source.
RECURSIVE getDimensionLabel(_, _)
getDimensionLabel(var, dimname) ==
    CASE var.kind = "plain" -> ""
      [] var.kind = "merged" ->
            IF dimname = var.mergedimid THEN "observation"
            ELSE getDimensionLabel(var.vars[1], dimname)
      [] OTHER -> getDimensionLabel(var.sourcevar, dimname)

\* VariableReduceDimension.__init__ for the transform classes that set name
\* prefixes: the transform record without the fields of its class.
ReduceDimension(kind, variable, dimension, longnameprefix) ==
    [kind |-> kind, sourcevar |-> variable,
     longname |-> <<longnameprefix, getLongName(variable)>>,
     dimension |-> dimension,
     idimension |-> SetMin({i \in 1..Len(getDimensions(variable)) :
                               getDimensions(variable)[i] = dimension})]

\* VariableAverage.__init__.
VariableAverage(variable, dimname, centermeasure, boundsmeasure, percentilewidth) ==
    IF dimname \notin Range(getDimensions(variable))
    THEN [status |-> "AssertionError", var |-> NoVar]
    ELSE [status |-> "ok",
          var |-> ReduceDimension("average", variable, dimname,
                      <<getDimensionLabel(variable, dimname), "-averaged ">>)
                  @@ [centermeasure |-> centermeasure,
                      boundsmeasure |-> boundsmeasure,
                      percentilewidth |-> percentilewidth]]

\* The fields VariableFlat.__init__ adds (positions counted from 1).
FlatTarget(var, targetdim, itargetdim) ==
    var @@ [targetdim |-> targetdim,
            itargetdim |-> itargetdim,
            inewtargetdim |-> IF var.idimension < itargetdim
                              THEN itargetdim - 1 ELSE itargetdim]

\* VariableFlat.__init__: list.index raises ValueError for a target
\* dimension that the source does not have.
VariableFlat(variable, dimname, targetdim) ==
    IF dimname \notin Range(getDimensions(variable))
    THEN [status |-> "AssertionError", var |-> NoVar]
    ELSE IF targetdim \notin Range(getDimensions(variable))
    THEN [status |-> "ValueError", var |-> NoVar]
    ELSE [status |-> "ok",
          var |-> FlatTarget(ReduceDimension("flat", variable, dimname,
                                 <<getDimensionLabel(variable, dimname), "-combined ">>),
                             targetdim,
                             SetMin({i \in 1..Len(getDimensions(variable)) :
                                        getDimensions(variable)[i] = targetdim}))]

\* numpy's a.searchsorted(v): the number of elements of the sorted a below v.
\* searchsorted with side='right': the elements not above v are counted.
searchsorted_Right(a, v) == Cardinality({i \in 1..Len(a) : a[i] <= v})

searchsorted(a, v) == Cardinality({i \in 1..Len(a) : a[i] < v})

\* math.floor and math.ceil of a number in half units, as an integer.
floor(x) == x \div 2
ceil(x) == -((-x) \div 2)

Ok(slice) == [status |-> "ok", slice |-> slice]
Raise(error) == [status |-> error, slice |-> NewSlice(<<>>)]

\* VariableSlice.getSlice from the point where the source slice has been
\* fetched (source is the outcome of sourcevar.getSlice(newbounds)).
\*  - "if not sourceslice.isValid" tests the bound method, not its result:
\*    the test never succeeds and an invalid source slice is not returned on;
\*  - between two grid points the code reaches "len(dims)", a name that is not
\*    defined in the method or the module.
VariableSlice_getSlice(var, source) ==
    IF source.status # "ok" THEN source
    ELSE
    LET newslice == NewSlice(getDimensions(var))
        sourceslice == source.slice
        idim == var.idimension
    IN  IF idim > Len(sourceslice.coords) THEN Raise("IndexError")
        ELSE IF ~sourceslice.coords[idim].set THEN Raise("AttributeError")
        ELSE IF sourceslice.coords[idim].nd # 1 THEN Raise("AssertionError")
        ELSE LET ipos == searchsorted(sourceslice.coords[idim].v, var.sliceval) IN
             IF ipos = 0 \/ ipos >= Len(sourceslice.coords[idim].v)
             THEN Ok(newslice)
             ELSE Raise("NameError")

\* MergedVariable.getSlice: the store index range selected by the bounds on
\* the merge dimension (bounds in half units, indices counted from 0).
MergedIndexRange(bound, nvars) ==
    LET ifirst == IF bound[1].set /\ bound[1].v > 0 THEN floor(bound[1].v) ELSE 0
        ilast  == IF bound[2].set /\ bound[2].v < 2 * (nvars - 1)
                  THEN ceil(bound[2].v) ELSE nvars - 1
    IN  <<ifirst, ilast>>

\* MergedVariable.getSlice from the point where the slices of the selected
\* stores have been fetched (curslices, in store order).  Before that point
\* numpy.linspace has failed for a range of negative length (ValueError),
\* and common.getCenters, which takes the half-cell at either end from the
\* first and the last pair of centres, for a range of fewer than two stores
\* (IndexError).
MergedVariable_getSlice_Reversed(var, ifirst, ilast, curslices) ==
    LET count == ilast - ifirst + 1
        first == curslices[1].slice
        coords0 == [k \in 1..count |-> 2 * (ifirst + k - 1)]
    IN  Ok([dimensions  |-> getDimensions(var),
            ndim        |-> Len(getDimensions(var)),
            data        |-> LET shape == <<count>> \o first.data.shape IN
                            Data(shape,
                                 [t \in Idx(shape) |->
                                     curslices[count + 1 - t[1]].slice.data.v[Tail(t)]]),
            coords      |-> <<Arr(coords0)>> \o first.coords,
            coords_stag |-> <<Arr(getCenters(coords0))>> \o first.coords_stag])

MergedVariable_getSlice(var, ifirst, ilast, curslices) ==
    LET count == ilast - ifirst + 1
        failed == {k \in 1..count : curslices[k].status # "ok"}
        nodata == {k \in 1..count : ~curslices[k].slice.data.set}
        first == curslices[1].slice
        coords0 == [k \in 1..count |-> 2 * (ifirst + k - 1)]
    IN  IF failed # {} /\ (nodata = {} \/ SetMin(failed) <= SetMin(nodata))
        THEN curslices[SetMin(failed)]
        ELSE IF nodata # {} THEN Raise("AttributeError")
        ELSE IF \E k \in 1..count : curslices[k].slice.data.shape # first.data.shape
        THEN Raise("ValueError")
        ELSE Ok([dimensions  |-> getDimensions(var),
                 ndim        |-> Len(getDimensions(var)),
                 data        |-> LET shape == <<count>> \o first.data.shape IN
                                 Data(shape,
                                      [t \in Idx(shape) |->
                                          curslices[t[1]].slice.data.v[Tail(t)]]),
                 coords      |-> <<Arr(coords0)>> \o first.coords,
                 coords_stag |-> <<Arr(getCenters(coords0))>> \o first.coords_stag])

(* ---- VariableAverage.getSlice ------------------------------------------ *)
\* Exact arithmetic: a rational is [n, d] in lowest terms with d > 0, so that
\* equal numbers are equal records.
RECURSIVE GCD(_, _)
GCD(a, b) == IF b = 0 THEN a ELSE GCD(b, a % b)
Abs(x) == IF x < 0 THEN -x ELSE x
Frac(n, d) ==
    LET g == GCD(Abs(n), Abs(d)) IN
    IF d < 0 THEN [n |-> (-n) \div g, d |-> (-d) \div g]
    ELSE [n |-> n \div g, d |-> d \div g]
FAdd(a, b) == Frac(a.n * b.d + b.n * a.d, a.d * b.d)
FSub(a, b) == Frac(a.n * b.d - b.n * a.d, a.d * b.d)
FMul(a, b) == Frac(a.n * b.n, a.d * b.d)
FDiv(a, b) == Frac(a.n * b.d, a.d * b.n)
FLess(a, b) == a.n * b.d < b.n * a.d
RECURSIVE FSum(_)
FSum(s) == IF s = <<>> THEN Frac(0, 1) ELSE FAdd(s[1], FSum(Tail(s)))

\* The number a + s * sqrt(r), s in {-1, 0, 1}: numpy.sqrt is kept symbolic.
Surd(a, s, r) == [a |-> a, s |-> s, r |-> r]

\* A 1-D array held as a tuple of its elements.
Array1(a) == a \o <<>>

\* numpy.diff of a 1-D array.
diff(a) == [k \in 1..(Len(a) - 1) |-> a[k + 1] - a[k]]

\* common.replicateCoordinates(coords, data, idim): the 1-D array coords laid
\* along axis idim of an array of the shape of data, the same for every index
\* of the other axes.
replicateCoordinates(coords, data, idim) ==
    [t \in Idx(data.shape) |-> coords[t[idim]]]

\* The values of array v (a function over index tuples) along axis idim at
\* index t of the other axes.
AlongAxis(v, count, idim, t) ==
    Array1([k \in 1..count |-> v[InsertAt(t, idim, k)]])

\* weights /= summedweights...: the weights of one column, summing to one.
NormalizedWeights(w) ==
    LET summedweights == FSum([k \in DOMAIN w |-> Frac(w[k], 1)]) IN
    Array1([k \in DOMAIN w |-> FDiv(Frac(w[k], 1), summedweights)])

\* (data*weights).sum(axis=idimension) for one column.
WeightedSum(x, weights) ==
    FSum([k \in DOMAIN x |-> FMul(Frac(x[k], 1), weights[k])])

\* data.argsort(axis): the positions of the values in increasing order; the
\* arrays of the model are short, and numpy sorts a short array by insertion,
\* which leaves equal values in the order of their positions.
argsort(x) ==
    LET before(j, k) == x[j] < x[k] \/ (x[j] = x[k] /\ j < k)
        rank(k) == Cardinality({j \in DOMAIN x : before(j, k)}) + 1
    IN  [r \in DOMAIN x |-> CHOOSE k \in DOMAIN x : rank(k) = r]

\* common.argtake(data, indices, axis) for one column.
argtake(x, indices) == Array1([r \in DOMAIN indices |-> x[indices[r]]])

\* cumsum with a leading zero: the cumulative distribution at the interfaces.
CumulativeWeights(w) ==
    [k \in 1..(Len(w) + 1) |-> FSum(SubSeq(w, 1, k - 1))]

\* The interface grid of sorted data: the end values and the mid-points.
InterfaceGrid(x) ==
    LET n == Len(x) IN
    [k \in 1..(n + 1) |->
        Frac((IF k = 1 THEN x[1] ELSE x[k - 1]) + (IF k = n + 1 THEN x[n] ELSE x[k]), 2)]

\* common.getPercentile(data, cumweights, crit, axis) for one column: the
\* grid value at cumulative fraction crit, interpolated linearly between the
\* two interfaces around it.
getPercentile(grid, cum, crit) ==
    LET n == Len(grid) - 1
        k == SetMin({i \in 1..n : ~FLess(cum[i + 1], crit)})
    IN  FAdd(grid[k],
             FMul(FSub(grid[k + 1], grid[k]),
                  FDiv(FSub(crit, cum[k]), FSub(cum[k + 1], cum[k]))))

\* The percentile of one column x with normalized weights w.
Percentile(x, w, crit) ==
    getPercentile(InterfaceGrid(argtake(x, argsort(x))),
                  CumulativeWeights(argtake(w, argsort(x))), crit)

\* slice.data of one column: the centre.
Center(centermeasure, x, w) ==
    IF centermeasure = 0 THEN WeightedSum(x, w) ELSE Percentile(x, w, Frac(1, 2))

\* var = (data**2*weights).sum(axis) - mean**2 of one column.
Variance(x, w) ==
    FSub(WeightedSum([k \in DOMAIN x |-> x[k] * x[k]], w),
         FMul(WeightedSum(x, w), WeightedSum(x, w)))

\* slice.lbound (sign -1) or slice.ubound (sign 1) of one column.
Bound_AroundMean(var, sign, center, x, w) ==
    IF var.boundsmeasure = 0
    THEN Surd(WeightedSum(x, w), sign, Variance(x, w))
    ELSE LET lowcrit == FDiv(FSub(Frac(1, 1), var.percentilewidth), Frac(2, 1)) IN
         Surd(Percentile(x, w, IF sign < 0 THEN lowcrit
                               ELSE FSub(Frac(1, 1), lowcrit)),
              0, Frac(0, 1))

Bound(var, sign, center, x, w) ==
    IF var.boundsmeasure = 0
    THEN Surd(center, sign, Variance(x, w))
    ELSE LET lowcrit == FDiv(FSub(Frac(1, 1), var.percentilewidth), Frac(2, 1)) IN
         Surd(Percentile(x, w, IF sign < 0 THEN lowcrit
                               ELSE FSub(Frac(1, 1), lowcrit)),
              0, Frac(0, 1))

\* slice.data, slice.lbound and slice.ubound of one column.
ReduceColumn(var, center, x, w) ==
    [data |-> center,
     lbound |-> Bound(var, -1, center, x, w),
     ubound |-> Bound(var, 1, center, x, w)]

\* The reduced slice from its columns (cols[t] at index t of the result).
Reduced(var, s, shape, cols) ==
    [dimensions  |-> getDimensions(var),
     ndim        |-> Len(getDimensions(var)),
     data        |-> Data(shape, [t \in Idx(shape) |-> cols[t].data]),
     coords      |-> RemoveAt(s.coords, var.idimension),
     coords_stag |-> RemoveAt(s.coords_stag, var.idimension),
     lbound      |-> Data(shape, [t \in Idx(shape) |-> cols[t].lbound]),
     ubound      |-> Data(shape, [t \in Idx(shape) |-> cols[t].ubound])]

\* The reduced slice of a valid source slice whose coordinates along the
\* reduced dimension do not depend on other dimensions (weights.ndim == 1).
Reduce_Unweighted(var, s, weights) ==
    LET idim == var.idimension
        count == s.data.shape[idim]
        shape == RemoveAt(s.data.shape, idim)
        x(t) == AlongAxis(s.data.v, count, idim, t)
        w == [k \in 1..count |-> Frac(1, count)]
    IN  Reduced(var, s, shape,
                [t \in Idx(shape) |->
                    ReduceColumn(var, Center(var.centermeasure, x(t), w), x(t), w)])

Reduce(var, s, weights) ==
    LET idim == var.idimension
        count == s.data.shape[idim]
        shape == RemoveAt(s.data.shape, idim)
        x(t) == AlongAxis(s.data.v, count, idim, t)
        w(t) == NormalizedWeights(AlongAxis(weights, count, idim, t))
    IN  Reduced(var, s, shape,
                [t \in Idx(shape) |->
                    ReduceColumn(var, Center(var.centermeasure, x(t), w(t)),
                                 x(t), w(t))])

\* VariableAverage.getSlice from the point where the source slice has been
\* fetched: an invalid source slice gives an empty Slice() at once; the
\* measure codes are looked at after the weights have been computed.
VariableAverage_getSlice_CheckFirst(var, source) ==
    IF source.status # "ok" THEN source
    ELSE IF var.centermeasure \notin {0, 1} \/ var.boundsmeasure \notin {0, 1}
    THEN Raise("AssertionError")
    ELSE IF ~isValid(source.slice) THEN Ok(NewSlice(<<>>))
    ELSE Ok(Reduce(var, source.slice,
                   replicateCoordinates(
                       diff(source.slice.coords_stag[var.idimension].v),
                       source.slice.data, var.idimension)))

VariableAverage_getSlice(var, source) ==
    IF source.status # "ok" THEN source
    ELSE IF ~isValid(source.slice) THEN Ok(NewSlice(<<>>))
    ELSE IF var.centermeasure \notin {0, 1} \/ var.boundsmeasure \notin {0, 1}
    THEN Raise("AssertionError")
    ELSE Ok(Reduce(var, source.slice,
                   replicateCoordinates(
                       diff(source.slice.coords_stag[var.idimension].v),
                       source.slice.data, var.idimension)))

(* ---- VariableFlat.getSlice --------------------------------------------- *)
\* numpy's a[...] = b: b is broadcast to the shape of a; where b has more
\* axes than a, axes of length one are first stripped from the left of b.
RECURSIVE StripLeft(_, _)
StripLeft(shape, ndim) ==
    IF Len(shape) > ndim /\ shape[1] = 1 THEN StripLeft(Tail(shape), ndim)
    ELSE shape

Broadcastable(src, dst) ==
    /\ Len(src) <= Len(dst)
    /\ \A k \in 1..Len(src) : src[k] = 1 \/ src[k] = dst[Len(dst) - Len(src) + k]

\* The index into b of the element assigned to a[t] (b of shape src, a of
\* shape dst, Broadcastable(StripLeft(src, Len(dst)), dst)).
AssignedFrom(src, dst, t) ==
    LET stripped == Len(src) - Len(StripLeft(src, Len(dst)))
        offset == Len(dst) - Len(src)
    IN  [a \in 1..Len(src) |->
            IF a <= stripped \/ src[a] = 1 THEN 1 ELSE t[a + offset]]

\* newdata after the loop over i and j: the element at index u of newdata
\* was assigned in the pass with i*sourcecount+j = u[inewtargetdim] (counted
\* from 0), from the sub-array of the source at (target = i, flattened = j).
FlatData(var, data, sourcecount, newdatashape) ==
    LET sub == [data.shape EXCEPT ![var.itargetdim] = 1, ![var.idimension] = 1]
        dst == [newdatashape EXCEPT ![var.inewtargetdim] = 1]
    IN  [u \in Idx(newdatashape) |->
            LET i == ((u[var.inewtargetdim] - 1) \div sourcecount) + 1
                j == ((u[var.inewtargetdim] - 1) % sourcecount) + 1
                q == AssignedFrom(sub, dst, [u EXCEPT ![var.inewtargetdim] = 1])
            IN  data.v[[q EXCEPT ![var.itargetdim] = i, ![var.idimension] = j]]]

\* The assignment newdata[targetindices] = data[sourceindices] of a pass.
CanAssign(var, data, newdatashape) ==
    Broadcastable(
        StripLeft([data.shape EXCEPT ![var.itargetdim] = 1, ![var.idimension] = 1],
                  Len(newdatashape)),
        [newdatashape EXCEPT ![var.inewtargetdim] = 1])

\* newtargetcoords: each target coordinate sourcecount times.
FlatCoords(targetcoords, sourcecount) ==
    [p \in 1..(Len(targetcoords) * sourcecount) |->
        targetcoords[((p - 1) \div sourcecount) + 1]]

\* The flattened slice of a source slice s with data and 1-D coordinates of
\* both dimensions.
Flatten(var, s, sourcecount, targetcount, newdatashape) ==
    IF sourcecount > 0 /\ targetcount > 0 /\ ~CanAssign(var, s.data, newdatashape)
    THEN Raise("ValueError")
    ELSE Ok([dimensions  |-> getDimensions(var),
             ndim        |-> Len(getDimensions(var)),
             data        |-> Data(newdatashape,
                                  FlatData(var, s.data, sourcecount, newdatashape)),
             coords      |-> [RemoveAt(s.coords, var.idimension)
                                 EXCEPT ![var.inewtargetdim] =
                                     Arr(FlatCoords(s.coords[var.itargetdim].v,
                                                    sourcecount))],
             coords_stag |-> RemoveAt(s.coords_stag, var.idimension)])

\* VariableFlat.getSlice from the point where the source slice has been
\* fetched; the source slice is not tested for validity.
VariableFlat_getSlice(var, source) ==
    IF source.status # "ok" THEN source
    ELSE
    LET s == source.slice IN
    IF var.idimension > Len(s.coords) THEN Raise("IndexError")
    ELSE IF ~s.coords[var.idimension].set THEN Raise("AttributeError")
    ELSE IF s.coords[var.idimension].nd # 1 THEN Raise("AssertionError")
    ELSE IF var.itargetdim > Len(s.coords) THEN Raise("IndexError")
    ELSE IF ~s.coords[var.itargetdim].set THEN Raise("AttributeError")
    ELSE IF s.coords[var.itargetdim].nd # 1 THEN Raise("AssertionError")
    ELSE IF ~s.data.set THEN Raise("AttributeError")
    ELSE Flatten(var, s, Len(s.coords[var.idimension].v),
                 Len(s.coords[var.itargetdim].v),
                 RemoveAt([s.data.shape EXCEPT ![var.itargetdim] =
                              @ * Len(s.coords[var.idimension].v)],
                          var.idimension))

RECURSIVE getSlice(_, _)
getSlice(var, bounds) ==
    CASE var.kind = "plain" -> Ok(var.slice)
      [] var.kind = "slice" ->
            VariableSlice_getSlice(var,
                getSlice(var.sourcevar,
                         InsertAt(bounds, var.idimension,
                                  <<Num(var.sliceval), Num(var.sliceval)>>)))
      [] var.kind = "average" ->
            VariableAverage_getSlice(var,
                getSlice(var.sourcevar,
                         InsertAt(bounds, var.idimension, <<NoNum, NoNum>>)))
      [] var.kind = "flat" ->
            IF Len(bounds) # Len(getDimensions(var.sourcevar)) - 1
            THEN Raise("AssertionError")
            ELSE VariableFlat_getSlice(var,
                     getSlice(var.sourcevar,
                              InsertAt(bounds, var.idimension, <<NoNum, NoNum>>)))
      [] var.kind = "merged" ->
            IF Len(bounds) # Len(getDimensions(var)) THEN Raise("AssertionError")
            ELSE LET r == MergedIndexRange(bounds[1], Len(var.vars)) IN
                 IF r[2] - r[1] + 1 < 0 THEN Raise("ValueError")
                 ELSE IF r[2] - r[1] + 1 < 2 THEN Raise("IndexError")
                 ELSE MergedVariable_getSlice(var, r[1], r[2],
                          [k \in 1..(r[2] - r[1] + 1) |->
                              getSlice(var.vars[r[1] + k], Tail(bounds))])

(* ---- Variable stores --------------------------------------------------- *)
RECURSIVE getName(_)
getName(var) ==
    CASE var.kind = "plain"  -> var.name
      [] var.kind = "merged" -> getName(var.vars[1])
      [] var.kind = "slice"  -> getName(var.sourcevar)
      [] var.kind = "average" -> <<"avg_", getName(var.sourcevar)>>
      [] var.kind = "flat" -> <<"flat_", getName(var.sourcevar)>>

\* A store is a record tagged by its class: "custom" (CustomVariableStore,
\* the list of its variables) or "merged" (MergedVariableStore).
CustomVariableStore(variables) == [kind |-> "custom", vars |-> variables]
MergedVariableStore(stores, mergedimid) ==
    [kind |-> "merged", stores |-> stores, mergedimid |-> mergedimid]

\* CustomVariableStore.addVariable: the variable is appended.
CustomVariableStore_addVariable(store, var) ==
    [store EXCEPT !.vars = Append(@, var)]

\* CustomVariableStore.getVariableNames: the name of each variable, in order.
getVariableNames(store) == [i \in 1..Len(store.vars) |-> getName(store.vars[i])]

\* CustomVariableStore.getVariable: the first variable of that name, or None.
CustomVariableStore_getVariable_Last(store, varname) ==
    LET hits == {i \in 1..Len(store.vars) : getName(store.vars[i]) = varname} IN
    IF hits = {} THEN NoVar ELSE store.vars[SetMax(hits)]

CustomVariableStore_getVariable(store, varname) ==
    LET hits == {i \in 1..Len(store.vars) : getName(store.vars[i]) = varname} IN
    IF hits = {} THEN NoVar ELSE store.vars[SetMin(hits)]

\* MergedVariableStore.getVariable from the variables found in its stores
\* (found[i] is stores[i].getVariable(varname)): the lookup stops at the first
\* store without the variable, prints a report naming it, and returns None.
\* report is what was printed: the position of the store and the name.
MergedVariableStore_getVariable(store, varname, found) ==
    LET missing == {i \in 1..Len(found) : found[i].kind = "none"} IN
    IF missing # {}
    THEN [var |-> NoVar, report |-> <<<<SetMin(missing), varname>>>>]
    ELSE [var |-> MergedVariable(found, store.mergedimid), report |-> <<>>]

\* getVariable of a store; the stores merged here are custom stores.
getVariable(store, varname) ==
    IF store.kind = "custom"
    THEN [var |-> CustomVariableStore_getVariable(store, varname), report |-> <<>>]
    ELSE MergedVariableStore_getVariable(store, varname,
             [i \in 1..Len(store.stores) |->
                 CustomVariableStore_getVariable(store.stores[i], varname)])

\* VariableStore.getDimensionInfo: the preferred axis of a dimension.  The
\* base class, the custom store and the merge dimension have none.
preferredaxis(dimname) == None

(* ---- The data of the model's world ------------------------------------ *)
\* Three time steps at one depth: a line once the singleton is squeezed out.
LineSlice(base) ==
    [dimensions  |-> <<"time", "z">>,
     ndim        |-> 2,
     data        |-> Data(<<3, 1>>, [t \in Idx(<<3, 1>>) |-> base + 4 * (t[1] - 1)]),
     coords      |-> <<Arr(<<0, 2, 4>>), Arr(<<0>>)>>,
     coords_stag |-> <<Arr(getCenters(<<0, 2, 4>>)), Arr(<<-1, 1>>)>>]

\* Three time steps at two depths: a map.
MapSlice ==
    [dimensions  |-> <<"time", "z">>,
     ndim        |-> 2,
     data        |-> Data(<<3, 2>>, [t \in Idx(<<3, 2>>) |-> 2 * t[1] + 6 * t[2]]),
     coords      |-> <<Arr(<<2, 4, 6>>), Arr(<<-8, -4>>)>>,
     coords_stag |-> <<Arr(getCenters(<<2, 4, 6>>)), Arr(getCenters(<<-8, -4>>))>>]

\* Store P has a line, a map and a variable without data (its getSlice is
\* the base class's, an empty Slice()); store Q has the line only.
StoreP ==
    CustomVariableStore(<<
        PlainVariable("line", "temperature", <<"time", "z">>, LineSlice(20)),
        PlainVariable("map", "salinity", <<"time", "z">>, MapSlice),
        PlainVariable("void", "empty", <<"time">>, NewSlice(<<>>))>>)

StoreQ ==
    CustomVariableStore(<<
        PlainVariable("line", "temperature", <<"time", "z">>, LineSlice(30))>>)

StoreM == MergedVariableStore(<<StoreP, StoreQ>>, "obs")

\* The data sources a figure is given, by the name they are registered under
\* (the registry holds a reference to the store).
DataSources == [a |-> "P", b |-> "M"]
Store(ref) == IF ref = "P" THEN StoreP ELSE StoreM
SourceNames == DOMAIN DataSources
VarNames == {"line", "map", "void", "gone"}

DimNames == {"obs", "time", "z"}
AxisNames == <<"x", "y", "z", "colorbar">>

(* ---- Figure.update: the loop over the data series ---------------------- *)
\* A series node of the forced tree is [id, plottype]: id is the secondary
\* id, <<>> for the empty string and <<source, variable>> for the path
\* "source/variable"; plottype is the forced PlotType3D, or NoNum.
EmptyId == <<>>

\* The locals of update() and the parts of the trees and of the drawing
\* surface it changes, at the start of the loop.
StartUpdate(defser, faxes) ==
    [status      |-> "ok",
     defser      |-> defser,
     olddefaults |-> defser,
     titles      |-> <<>>,
     plotted     |-> <<>>,
     colorbars   |-> 0,
     forcedrange |-> faxes,
     used        |-> {},
     dimrange    |-> [d \in DimNames |-> <<NoNum, NoNum>>],
     dimaxis     |-> [d \in DimNames |-> None],
     serrange    |-> <<>>,
     seraxis     |-> <<>>,
     reports     |-> <<>>,
     resolved    |-> <<>>,
     skipped     |-> <<>>]

Abort(acc, error) == [acc EXCEPT !.status = error]

\* The bounds of every dimension are collected, a degenerate range too.
RECURSIVE BuildBounds_KeepBound(_, _, _, _)
BuildBounds_KeepBound(var, dims, forcedrange, dimbounds) ==
    IF dims = <<>> THEN [status |-> "ok", var |-> var, dimbounds |-> dimbounds]
    ELSE LET dimname == Head(dims) IN
         IF dimname \in DOMAIN forcedrange
         THEN LET fr == forcedrange[dimname] IN
              IF fr[1] = fr[2] /\ fr[1].set
              THEN LET w == VariableSlice(var, dimname, fr[1].v) IN
                   IF w.status # "ok"
                   THEN [status |-> w.status, var |-> var, dimbounds |-> dimbounds]
                   ELSE BuildBounds_KeepBound(w.var, Tail(dims), forcedrange,
                                              Append(dimbounds, fr))
              ELSE BuildBounds_KeepBound(var, Tail(dims), forcedrange,
                                         Append(dimbounds, fr))
         ELSE BuildBounds_KeepBound(var, Tail(dims), forcedrange,
                                    Append(dimbounds, <<NoNum, NoNum>>))

\* Lines 954-971: wrap the variable in a VariableSlice for every dimension
\* with a forced degenerate range, and collect the bounds of the others.
RECURSIVE BuildBounds(_, _, _, _)
BuildBounds(var, dims, forcedrange, dimbounds) ==
    IF dims = <<>> THEN [status |-> "ok", var |-> var, dimbounds |-> dimbounds]
    ELSE LET dimname == Head(dims) IN
         IF dimname \in DOMAIN forcedrange
         THEN LET fr == forcedrange[dimname] IN
              IF fr[1] = fr[2] /\ fr[1].set
              THEN LET w == VariableSlice(var, dimname, fr[1].v) IN
                   IF w.status # "ok"
                   THEN [status |-> w.status, var |-> var, dimbounds |-> dimbounds]
                   ELSE BuildBounds(w.var, Tail(dims), forcedrange, dimbounds)
              ELSE BuildBounds(var, Tail(dims), forcedrange, Append(dimbounds, fr))
         ELSE BuildBounds(var, Tail(dims), forcedrange,
                          Append(dimbounds, <<NoNum, NoNum>>))

\* Lines 1036-1039: widen the running data range of a dimension.
Widen(effrange, datamin, datamax) ==
    <<IF ~effrange[1].set \/ datamin < effrange[1].v THEN Num(datamin) ELSE effrange[1],
      IF ~effrange[2].set \/ datamax > effrange[2].v THEN Num(datamax) ELSE effrange[2]>>

RECURSIVE WidenAll(_, _, _, _)
WidenAll(dimrange, dimensions, coords, idim) ==
    IF idim > Len(dimensions) THEN dimrange
    ELSE WidenAll([dimrange EXCEPT ![dimensions[idim]] =
                      Widen(@, coords[idim].v[1], coords[idim].v[Len(coords[idim].v)])],
                  dimensions, coords, idim + 1)

\* A second colorbar that is drawn next to the first.
AddColorbar_NoCheck(acc) == [acc EXCEPT !.colorbars = @ + 1]

\* Lines 1202-1215: a series with a colour-mapped artist gets the colorbar;
\* there may be none yet.
AddColorbar(acc) ==
    IF acc.colorbars # 0 THEN Abort(acc, "AssertionError")
    ELSE [acc EXCEPT !.colorbars = @ + 1]

\* Lines 982-1039: the dimensions of the variable are registered as used, the
\* data range of the series and the coordinate range of each dimension of the
\* squeezed slice are recorded.
RegisterData(acc, varpath, originaldims, varslice, coords) ==
    [acc EXCEPT
       !.used = @ \cup Range(originaldims),
       !.serrange = (varpath :> <<SetMin({varslice.data.v[t] : t \in Idx(varslice.data.shape)}),
                                  SetMax({varslice.data.v[t] : t \in Idx(varslice.data.shape)})>>) @@ @,
       !.dimrange = WidenAll(@, varslice.dimensions, coords, 1)]

\* Lines 1047-1103: a line plot; the dimension and the series get an axis.
PlotLine(acc, varpath, dimname, switchaxes) ==
    [acc EXCEPT
       !.dimaxis[dimname] = IF switchaxes THEN "y" ELSE "x",
       !.seraxis = (varpath :> IF switchaxes THEN "x" ELSE "y") @@ @,
       !.plotted = Append(@, varpath)]

\* Lines 1105-1122: the axes of the two dimensions of a map, switched when
\* their preferred axes ask for it, and the colorbar axis of the series.
BindMapAxes(acc, varpath, dimensions, plottype3d, switched) ==
    [acc EXCEPT
       !.dimaxis = [@ EXCEPT ![dimensions[IF switched THEN 2 ELSE 1]] = "x",
                             ![dimensions[IF switched THEN 1 ELSE 2]] = "y"],
       !.seraxis = IF plottype3d # 2 THEN (varpath :> "colorbar") @@ @ ELSE @,
       !.plotted = Append(@, varpath)]

\* Lines 1105-1217: a map; pc, the filled contour set or the mesh, asks for a
\* colorbar, line contours (plot type 2) have none.
PlotMap(acc, varpath, dimensions, plottype3d, prefaxis) ==
    IF plottype3d = 2
    THEN BindMapAxes(acc, varpath, dimensions, plottype3d,
                     \/ (prefaxis[1] = "y" /\ prefaxis[2] # "y")
                     \/ (prefaxis[2] = "x" /\ prefaxis[1] # "x"))
    ELSE AddColorbar(BindMapAxes(acc, varpath, dimensions, plottype3d,
                     \/ (prefaxis[1] = "y" /\ prefaxis[2] # "y")
                     \/ (prefaxis[2] = "x" /\ prefaxis[1] # "x")))

\* Lines 1041-1217: the squeezed slice is drawn by its dimensionality.
DrawSeries(acc, varpath, varslice, plottype3d) ==
    IF varslice.ndim = 1
    THEN PlotLine(acc, varpath, varslice.dimensions[1],
                  preferredaxis(varslice.dimensions[1]) = "y")
    ELSE IF varslice.ndim = 2
    THEN PlotMap(acc, varpath, varslice.dimensions, plottype3d,
                 <<preferredaxis(varslice.dimensions[1]),
                   preferredaxis(varslice.dimensions[2])>>)
    ELSE acc

\* Lines 994-1217 on the squeezed slice: a mesh (plot type 0) of a map is
\* drawn on the staggered coordinates, everything else on the centres.
PlotSqueezed(acc, varpath, originaldims, varslice, plottype3d) ==
    DrawSeries(RegisterData(acc, varpath, originaldims, varslice,
                            IF varslice.ndim = 2 /\ plottype3d = 0
                            THEN varslice.coords_stag ELSE varslice.coords),
               varpath, varslice, plottype3d)

\* Lines 979-1217: a series whose slice is valid: register its dimensions,
\* squeeze, record the data ranges, draw by dimensionality, bind the axes.
PlotSeries(acc, seriesnode, originaldims, slice) ==
    PlotSqueezed(acc, seriesnode.id, originaldims, squeeze(slice),
                 IF seriesnode.plottype.set THEN seriesnode.plottype.v ELSE 0)

\* A variable the store does not have is passed over.
MissingVariable_Skip(acc) == acc

\* Line 932: the assertion on the variable the store returned.
MissingVariable(acc) == Abort(acc, "AssertionError")

\* An invalid slice that is fatal to the rebuild.
SkipSeries_Fatal(acc, varpath) ==
    Abort([acc EXCEPT !.skipped = Append(@, varpath)], "AssertionError")

\* Line 977: a series whose slice is invalid is passed over (skipped records
\* it; the program keeps no such list).
SkipSeries(acc, varpath) == [acc EXCEPT !.skipped = Append(@, varpath)]

\* Lines 976-979: the validity test of the fetched slice.
Fetched(acc, seriesnode, originaldims, fetched) ==
    IF fetched.status # "ok" THEN Abort(acc, fetched.status)
    ELSE IF ~isValid(fetched.slice) THEN SkipSeries(acc, seriesnode.id)
    ELSE PlotSeries(acc, seriesnode, originaldims, fetched.slice)

\* Lines 954-974: the variable, wrapped for the degenerate forced ranges, is
\* asked for its slice within the bounds of the other dimensions.
Fetch(acc, seriesnode, originaldims, b) ==
    IF b.status # "ok" THEN Abort(acc, b.status)
    ELSE Fetched(acc, seriesnode, originaldims, getSlice(b.var, b.dimbounds))

\* Lines 935-952: the default Series entry of the variable is created and
\* taken off the list of stale entries, its label is kept for the title.
DefaultSeries(acc, varpath, longname) ==
    [acc EXCEPT !.defser = @ \cup {varpath},
                !.olddefaults = @ \ {varpath},
                !.titles = Append(@, longname)]

\* Lines 929-974: the variable is asked of the store (got is what the store
\* returned and printed).
Lookup(acc, seriesnode, got) ==
    IF got.var.kind = "none" THEN MissingVariable(acc)
    ELSE Fetch(DefaultSeries(acc, seriesnode.id, getLongName(got.var)),
               seriesnode, getDimensions(got.var),
               BuildBounds(got.var, getDimensions(got.var), acc.forcedrange, <<>>))

\* Lines 929-931: the store of the source; resolved records the source the
\* path was resolved to, reports what the store printed.
Resolve(acc, seriesnode, srcs, varsource) ==
    IF varsource \notin DOMAIN srcs THEN Abort(acc, "KeyError")
    ELSE Lookup([acc EXCEPT
                    !.reports = @ \o getVariable(Store(srcs[varsource]),
                                                 seriesnode.id[2]).report,
                    !.resolved = Append(@, <<seriesnode.id, varsource>>)],
                seriesnode,
                getVariable(Store(srcs[varsource]), seriesnode.id[2]))

\* Lines 916-977: one pass of the loop, up to the validity test of the slice.
ProcessSeries(acc, seriesnode, srcs, defsrc) ==
    IF seriesnode.id = EmptyId THEN acc
    ELSE IF seriesnode.id[1] = "" /\ defsrc = None THEN Abort(acc, "AssertionError")
    ELSE Resolve(acc, seriesnode, srcs,
                 IF seriesnode.id[1] = "" THEN defsrc ELSE seriesnode.id[1])

RECURSIVE SeriesLoop(_, _, _, _)
SeriesLoop(acc, series, srcs, defsrc) ==
    IF series = <<>> \/ acc.status # "ok" THEN acc
    ELSE SeriesLoop(ProcessSeries(acc, Head(series), srcs, defsrc),
                    Tail(series), srcs, defsrc)

(* ---- Figure.update ----------------------------------------------------- *)
\* What a handler that ran no rebuild leaves in out.
Idle ==
    [rebuilds |-> 0, status |-> "none", fired |-> <<>>,
     loop |-> StartUpdate({}, <<>>)]

\* Lines 1230-1238: the default title, as the list of labels that ', ' joins.
MakeTitle(titles) ==
    IF titles = <<>> THEN <<>>
    ELSE IF \A i \in 1..Len(titles) : titles[i] = titles[1] THEN <<titles[1]>>
    ELSE titles

\* Line 1259: the axes some dimension or series was bound to.
BoundAxes(acc) ==
    ({acc.dimaxis[d] : d \in DimNames} \cup {acc.seraxis[p] : p \in DOMAIN acc.seraxis})
        \ {None}

\* Line 1503: the argument the completion callbacks are called with.
CompleteState_SeveralSeries(series) == Len(series) > 1

CompleteState(series) == Len(series) > 0

\* Figure.update(), called with self.updating = upd, the forced series fs,
\* the default series ds and the forced axes fa: the new values of everything
\* it may change.
\* An error raised in the loop ends the call there: what was written to the
\* default tree and drawn so far stays, nothing after the loop runs.
\* Stale default Series entries are removed once all series are processed.
RemoveStale_Keep(defser, olddefaults) == defser

RemoveStale(defser, olddefaults) == defser \ olddefaults

\* Lines 1225-1505: what update() does after the loop over the series (acc
\* is the loop's outcome).  An exception leaves the entries created so far and
\* what was drawn; dirty is cleared on the last line only.
EndUpdate(acc, fs, fa) ==
    IF acc.status # "ok"
    THEN [dirty |-> dirty, defaultseries |-> acc.defser, defaulttitle |-> defaulttitle,
          forcedaxes |-> fa, defaultaxes |-> defaultaxes,
          canvas |-> [plotted |-> acc.plotted, colorbars |-> acc.colorbars],
          out |-> [rebuilds |-> 1, status |-> acc.status, fired |-> <<>>, loop |-> acc]]
    ELSE [dirty |-> FALSE,
          defaultseries |-> RemoveStale(acc.defser, acc.olddefaults),
          defaulttitle |-> MakeTitle(acc.titles),
          forcedaxes |-> [a \in BoundAxes(acc) |-> IF a \in DOMAIN fa
                                                   THEN fa[a] ELSE <<NoNum, NoNum>>],
          defaultaxes |-> BoundAxes(acc),
          canvas |-> [plotted |-> acc.plotted, colorbars |-> acc.colorbars],
          out |-> [rebuilds |-> 1, status |-> "ok",
                   fired |-> [k \in 1..callbacks |-> CompleteState(fs)],
                   loop |-> acc]]

\* update() past its early return: the rebuild of the figure.
rebuild(fs, ds, fa) ==
    EndUpdate(SeriesLoop(StartUpdate(ds, fa), fs, sources, defaultsource), fs, fa)

\* update() that rebuilds although updates are suspended.
update_IgnoreSuspension(upd, fs, ds, fa) == rebuild(fs, ds, fa)

update(upd, fs, ds, fa) ==
    IF ~upd
    THEN [dirty |-> TRUE, defaultseries |-> ds, defaulttitle |-> defaulttitle,
          forcedaxes |-> fa, defaultaxes |-> defaultaxes,
          canvas |-> canvas, out |-> Idle]
    ELSE rebuild(fs, ds, fa)

\* The part of the next state that a call of update() decides.
Updated(u) ==
    /\ dirty' = u.dirty
    /\ defaultseries' = u.defaultseries
    /\ defaulttitle' = u.defaulttitle
    /\ forcedaxes' = u.forcedaxes
    /\ defaultaxes' = u.defaultaxes
    /\ canvas' = u.canvas
    /\ out' = u.out

\* A handler that does not call update().
NotUpdated ==
    /\ out' = Idle
    /\ UNCHANGED <<dirty, defaultseries, defaulttitle, forcedaxes, defaultaxes, canvas>>

(* ---- Figure: the handlers ---------------------------------------------- *)
NoCall == [fn |-> "none"]
Pending == [status |-> "pending", slice |-> NewSlice(<<>>)]

\* Figure.__init__
FigureInit ==
    /\ updating = TRUE
    /\ dirty = FALSE
    /\ haschanged = FALSE
    /\ callbacks = 0
    /\ sources = <<>>
    /\ defaultsource = None
    /\ forcedseries = <<>>
    /\ defaultseries = {}
    /\ defaulttitle = <<>>
    /\ forcedaxes = <<>>
    /\ defaultaxes = {}
    /\ canvas = [plotted |-> <<>>, colorbars |-> 0]
    /\ out = Idle
    /\ requests = 0

\* requests observes the figure and is read by no handler: the number of
\* calls of update() since updates were suspended (0 while they are enabled).
Requested ==
    /\ ~updating => requests < MaxRequests
    /\ requests' = IF updating THEN requests ELSE requests + 1

registerCallback ==
    /\ callbacks < MaxCallbacks
    /\ callbacks' = callbacks + 1
    /\ NotUpdated
    /\ UNCHANGED <<requests, updating, haschanged, sources, defaultsource, forcedseries, call, ret>>

setUpdating(allowupdates) ==
    /\ updating' = IF updating # allowupdates THEN allowupdates ELSE updating
    /\ IF updating # allowupdates /\ allowupdates /\ dirty
       THEN Updated(update(allowupdates, forcedseries, defaultseries, forcedaxes))
       ELSE NotUpdated
    /\ requests' = IF updating # allowupdates THEN 0 ELSE requests
    /\ UNCHANGED <<haschanged, callbacks, sources, defaultsource, forcedseries, call, ret>>

\* A direct call of Figure.update().
Update ==
    /\ Requested
    /\ Updated(update(updating, forcedseries, defaultseries, forcedaxes))
    /\ UNCHANGED <<updating, haschanged, callbacks, sources, defaultsource,
                   forcedseries, call, ret>>

\* Figure.onPropertyStoreChanged, reached from onPropertyChanged too: the
\* property store reports a change (here of a property update() reads
\* nothing from that the model keeps).
onPropertyStoreChanged ==
    /\ haschanged' = TRUE
    /\ Requested
    /\ Updated(update(updating, forcedseries, defaultseries, forcedaxes))
    /\ UNCHANGED <<updating, callbacks, sources, defaultsource, forcedseries, call, ret>>

resetChanged ==
    /\ haschanged
    /\ haschanged' = FALSE
    /\ NotUpdated
    /\ UNCHANGED <<requests, updating, callbacks, sources, defaultsource, forcedseries, call, ret>>

clearSources ==
    /\ sources' = <<>>
    /\ defaultsource' = None
    /\ NotUpdated
    /\ UNCHANGED <<requests, updating, haschanged, callbacks, forcedseries, call, ret>>

\* addDataSource that makes the source registered last the default.
addDataSource_LastWins(name, obj) ==
    /\ sources' = (name :> obj) @@ sources
    /\ defaultsource' = name
    /\ NotUpdated
    /\ UNCHANGED <<requests, updating, haschanged, callbacks, forcedseries, call, ret>>

addDataSource(name, obj) ==
    /\ sources' = (name :> obj) @@ sources
    /\ defaultsource' = IF defaultsource = None THEN name ELSE defaultsource
    /\ NotUpdated
    /\ UNCHANGED <<requests, updating, haschanged, callbacks, forcedseries, call, ret>>

clearVariables ==
    /\ forcedseries # <<>>
    /\ forcedseries' = <<>>
    /\ NotUpdated
    /\ UNCHANGED <<requests, updating, haschanged, callbacks, sources, defaultsource, call, ret>>

\* Figure.addVariable(varname, source) with replace=True: the series node of
\* that path is fetched or created in both trees, then update() is called.
VarPath(varname, source) == IF source = None THEN <<"", varname>> ELSE <<source, varname>>

addVariable(varname, source) ==
    LET varpath == VarPath(varname, source)
        present == \E i \in 1..Len(forcedseries) : forcedseries[i].id = varpath
    IN  /\ present \/ Len(forcedseries) < MaxSeries
        /\ forcedseries' = IF present THEN forcedseries
                           ELSE Append(forcedseries, [id |-> varpath, plottype |-> NoNum])
        /\ Requested
        /\ Updated(update(updating, forcedseries', defaultseries \cup {varpath}, forcedaxes))
        /\ UNCHANGED <<updating, haschanged, callbacks, sources, defaultsource, call, ret>>

\* Figure.setProperties(props): the forced tree is replaced by props (its
\* series and its axes), then update() is called.
setProperties(props) ==
    /\ forcedseries' = props.series
    /\ Requested
    /\ Updated(update(updating, props.series, defaultseries, props.axes))
    /\ UNCHANGED <<updating, haschanged, callbacks, sources, defaultsource, call, ret>>

(* ---- The figure's life ------------------------------------------------- *)
Series(varname, source, plottype) ==
    [id |-> VarPath(varname, source), plottype |-> plottype]

\* The inputs of the handlers.
AddMenu == {<<"line", None>>, <<"line", "b">>}
PropsMenu ==
    {[series |-> <<>>, axes |-> <<>>],
     [series |-> <<[id |-> EmptyId, plottype |-> NoNum], Series("void", None, NoNum)>>,
      axes |-> <<>>]}

Init ==
    /\ FigureInit
    /\ call = NoCall
    /\ ret = Pending

Next ==
    \/ registerCallback
    \/ \E allowupdates \in BOOLEAN : setUpdating(allowupdates)
    \/ Update
    \/ onPropertyStoreChanged
    \/ resetChanged
    \/ clearSources
    \/ \E name \in SourceNames : addDataSource(name, DataSources[name])
    \/ clearVariables
    \/ \E m \in AddMenu : addVariable(m[1], m[2])
    \/ \E props \in PropsMenu : setProperties(props)

Spec == Init /\ [][Next]_vars

(* ---- Rebuilds over drawn configurations -------------------------------- *)
\* A figure that plotted the series "a/old" earlier, was then given sources,
\* callbacks and a new forced tree (series and axes), and is rebuilt.
RebuildIds ==
    {VarPath(varname, None) : varname \in VarNames} \cup {VarPath("line", "b")}
SeriesNodes ==
    {[id |-> id, plottype |-> t] : id \in RebuildIds, t \in {NoNum, Num(1), Num(2)}}
        \cup {[id |-> EmptyId, plottype |-> NoNum]}
Configs ==
    {c \in UNION {[1..n -> SeriesNodes] : n \in 0..MaxSeries} :
        \A i, j \in DOMAIN c : c[i].id = c[j].id => i = j}
Registries ==
    {<<sources0, default0>> \in
        (UNION {[S -> {"P", "M"}] : S \in SUBSET SourceNames}) \X (SourceNames \cup {None}) :
        /\ \A name \in DOMAIN sources0 : sources0[name] = DataSources[name]
        /\ IF DOMAIN sources0 = {} THEN default0 = None ELSE default0 \in DOMAIN sources0}
ForcedAxesMenu == {<<>>, [time |-> <<Num(2), Num(2)>>]}
StaleSeries == {<<"a", "old">>}

InitRebuild ==
    /\ updating = TRUE
    /\ dirty = FALSE
    /\ haschanged = FALSE
    /\ callbacks \in {0, MaxCallbacks}
    /\ \E r \in Registries : sources = r[1] /\ defaultsource = r[2]
    /\ forcedseries \in Configs
    /\ defaultseries = StaleSeries
    /\ defaulttitle = <<"old">>
    /\ forcedaxes \in ForcedAxesMenu
    /\ defaultaxes = {}
    /\ canvas = [plotted |-> <<>>, colorbars |-> 0]
    /\ out = Idle
    /\ requests = 0
    /\ call = NoCall
    /\ ret = Pending

NextRebuild == Update

SpecRebuild == InitRebuild /\ [][NextRebuild]_vars

(* ---- VariableSlice.getSlice over drawn source slices -------------------- *)
\* Strictly increasing coordinate vectors of whole numbers (even half units).
Increasing ==
    {c \in UNION {[1..n -> {2 * k : k \in 0..MaxCoord}] : n \in 0..MaxLen} :
        \A i, j \in DOMAIN c : i < j => c[i] < c[j]}

\* The source slice of a call: dimension "x" has the drawn coordinates, "y"
\* (when there) two; the value at x-index i, y-index j is 20 + 4(i-1) + 2(j-1),
\* 10, 12, 14 along x in whole units.  kind is "valid", "coords2d" (the x
\* coordinates depend on other dimensions), "nodata" (data is None) or
\* "empty" (the base class's Slice()).
SourceSlice(c) ==
    IF c.kind = "empty" THEN NewSlice(<<>>)
    ELSE
    LET n == Len(c.dims)
        len(d) == IF d = "x" THEN Len(c.coords) ELSE 2
        shape == [i \in 1..n |-> len(c.dims[i])]
        at(t, d) == IF \E i \in 1..n : c.dims[i] = d
                    THEN t[CHOOSE i \in 1..n : c.dims[i] = d] ELSE 1
        xy(d) == IF d = "x" THEN c.coords ELSE <<0, 2>>
    IN  [dimensions  |-> c.dims,
         ndim        |-> n,
         data        |-> IF c.kind = "nodata" THEN NoData
                         ELSE Data(shape, [t \in Idx(shape) |->
                                  20 + 4 * (at(t, "x") - 1) + 2 * (at(t, "y") - 1)]),
         coords      |-> [i \in 1..n |->
                            [set |-> TRUE,
                             nd |-> IF c.kind = "coords2d" /\ c.dims[i] = "x" THEN 2 ELSE 1,
                             v |-> xy(c.dims[i])]],
         coords_stag |-> [i \in 1..n |-> Arr(<<>>)]]

SliceCalls ==
    [fn : {"VariableSlice.getSlice"},
     kind : {"valid", "coords2d", "nodata", "empty"},
     dims : {<<"x">>, <<"x", "y">>, <<"y", "x">>},
     coords : Increasing,
     sliceval : -1..(2 * MaxCoord + 1)]

InitSlice ==
    /\ FigureInit
    /\ call \in SliceCalls
    /\ ret = Pending

\* VariableSlice(source, "x", sliceval).getSlice(bounds), one unbounded pair
\* per remaining dimension.
CallGetSlice ==
    /\ call.fn = "VariableSlice.getSlice"
    /\ ret = Pending
    /\ LET source == PlainVariable("src", "source", call.dims, SourceSlice(call))
           var == VariableSlice(source, "x", call.sliceval).var
       IN  ret' = getSlice(var, [i \in 1..(Len(call.dims) - 1) |-> <<NoNum, NoNum>>])
    /\ UNCHANGED <<figvars, call>>

NextSlice == CallGetSlice

SpecSlice == InitSlice /\ [][NextSlice]_vars

(* ---- Constructing the reduce-dimension transforms ---------------------- *)
\* The source variables of a constructor call: a variable of a store with
\* dimensions drawn from time and z, as it is (depth 0), as returned by a
\* merged store (depth 1), or by a merged store of merged stores (depth 2),
\* each store with the default merge dimension id 'obs'.
PlainDims == {<<>>, <<"time">>, <<"z">>, <<"time", "z">>, <<"z", "time">>}
RECURSIVE Merged(_, _)
Merged(var, depth) ==
    IF depth = 0 THEN var ELSE MergedVariable(<<Merged(var, depth - 1)>>, "obs")
SourceVariable(c) ==
    Merged(PlainVariable("temp", "temperature", c.dims, NewSlice(c.dims)), c.depth)

ConstructCalls ==
    [fn : {"VariableSlice", "VariableAverage", "VariableFlat"},
     dims : PlainDims,
     depth : 0..2,
     dimension : DimNames,
     targetdim : DimNames]

InitConstruct ==
    /\ FigureInit
    /\ call \in ConstructCalls
    /\ ret = Pending

\* The constructor call; ret is [status, var].
Construct ==
    /\ call.fn \in {"VariableSlice", "VariableAverage", "VariableFlat"}
    /\ ret = Pending
    /\ ret' = CASE call.fn = "VariableSlice" ->
                    VariableSlice(SourceVariable(call), call.dimension, 0)
               [] call.fn = "VariableAverage" ->
                    VariableAverage(SourceVariable(call), call.dimension, 0, 0, 1)
               [] call.fn = "VariableFlat" ->
                    VariableFlat(SourceVariable(call), call.dimension, call.targetdim)
    /\ UNCHANGED <<figvars, call>>

NextConstruct == Construct

SpecConstruct == InitConstruct /\ [][NextConstruct]_vars

(* ---- Averaging over a dimension ---------------------------------------- *)
\* The interface coordinates of the averaged dimension "x": increasing, one
\* more than there are data points.
Interfaces(n) ==
    {c \in [1..(n + 1) -> {2 * k : k \in 0..MaxCoord}] :
        \A i, j \in DOMAIN c : i < j => c[i] < c[j]}

\* The data values along "x", in half units: 10, 12 and 14.
DataValues == {20, 24, 28}
Profiles(n) == [1..n -> DataValues]

\* The source slice of a call: dimension "x" has the drawn interfaces and the
\* centres between them, "y" (when there) two points; the data along x is
\* the drawn profile at the first y and the reversed profile, raised by one,
\* at the second.  kind is "valid", "nodata" (data is None) or "empty" (the
\* base class's Slice()).
AverageSource(c) ==
    IF c.kind = "empty" THEN NewSlice(<<>>)
    ELSE
    LET n == Len(c.dims)
        count == Len(c.data)
        shape == [i \in 1..n |-> IF c.dims[i] = "x" THEN count ELSE 2]
        ix == CHOOSE i \in 1..n : c.dims[i] = "x"
        iy == IF n = 1 THEN 1 ELSE 3 - ix
        centres == [k \in 1..count |-> (c.stag[k] + c.stag[k + 1]) \div 2]
    IN  [dimensions  |-> c.dims,
         ndim        |-> n,
         data        |-> IF c.kind = "nodata" THEN NoData
                         ELSE Data(shape,
                                  [t \in Idx(shape) |->
                                      IF n = 1 \/ t[iy] = 1 THEN c.data[t[ix]]
                                      ELSE c.data[count + 1 - t[ix]] + 2]),
         coords      |-> [i \in 1..n |-> IF i = ix THEN Arr(centres)
                                          ELSE Arr(<<0, 2>>)],
         coords_stag |-> [i \in 1..n |-> IF i = ix THEN Arr(c.stag)
                                          ELSE Arr(<<-1, 1, 3>>)]]

\* The calls: measure code 2 is not a code of the class; percentilewidth is
\* the default 0.5, or 1 where the bounds are percentiles.  The source slices
\* without data differ in their dimensions only.
AverageCall(kind, dims, stag, data, centermeasure, boundsmeasure, percentilewidth) ==
    [fn |-> "VariableAverage.getSlice", kind |-> kind, dims |-> dims,
     stag |-> stag, data |-> data, centermeasure |-> centermeasure,
     boundsmeasure |-> boundsmeasure, percentilewidth |-> percentilewidth]

InitAverage ==
    /\ FigureInit
    /\ \E n \in 1..MaxLen : \E stag \in Interfaces(n), data \in Profiles(n) :
       \E kind \in {"valid", "nodata", "empty"} :
       \E dims \in {<<"x">>, <<"x", "y">>, <<"y", "x">>} :
       \E centermeasure \in 0..2, boundsmeasure \in 0..2 :
       \E percentilewidth \in {Frac(1, 2), Frac(1, 1)} :
          /\ boundsmeasure # 1 => percentilewidth = Frac(1, 2)
          /\ kind # "valid" => stag = <<0, 2>> /\ data = <<20>>
          /\ call = AverageCall(kind, dims, stag, data, centermeasure,
                                boundsmeasure, percentilewidth)
    /\ ret = Pending

\* VariableAverage(source, "x", ...).getSlice(bounds), one unbounded pair per
\* remaining dimension.
CallAverage ==
    /\ call.fn = "VariableAverage.getSlice"
    /\ ret = Pending
    /\ LET source == PlainVariable("src", "source", call.dims, AverageSource(call))
           var == VariableAverage(source, "x", call.centermeasure,
                                  call.boundsmeasure, call.percentilewidth).var
       IN  ret' = getSlice(var, [i \in 1..(Len(call.dims) - 1) |-> <<NoNum, NoNum>>])
    /\ UNCHANGED <<figvars, call>>

NextAverage == CallAverage

SpecAverage == InitAverage /\ [][NextAverage]_vars

(* ---- Flattening a dimension into another ------------------------------- *)
\* The source slice of a call: "z" is flattened into "time"; "obs" (when
\* there) is a further dimension of two points.  The value at time index i,
\* z index j, obs index o (from 1) is 100 i + 10 j + o: no two are equal.
\* kind is "valid", "nodata" (data is None) or "empty" (the base class's
\* Slice()).
FlatSource(c) ==
    IF c.kind = "empty" THEN NewSlice(<<>>)
    ELSE
    LET n == Len(c.dims)
        len(d) == IF d = "time" THEN c.targetcount
                  ELSE IF d = "z" THEN c.sourcecount ELSE 2
        shape == [a \in 1..n |-> len(c.dims[a])]
        at(t, d) == IF \E a \in 1..n : c.dims[a] = d
                    THEN t[CHOOSE a \in 1..n : c.dims[a] = d] ELSE 1
        centres(d) == [k \in 1..len(d) |-> 2 * k]
        stag(d) == [k \in 1..(len(d) + 1) |-> 2 * k - 1]
    IN  [dimensions  |-> c.dims,
         ndim        |-> n,
         data        |-> IF c.kind = "nodata" THEN NoData
                         ELSE Data(shape,
                                  [t \in Idx(shape) |->
                                      100 * at(t, "time") + 10 * at(t, "z")
                                          + at(t, "obs")]),
         coords      |-> [a \in 1..n |-> Arr(centres(c.dims[a]))],
         coords_stag |-> [a \in 1..n |-> Arr(stag(c.dims[a]))]]

\* The orders of the dimensions of the source.
FlatDims ==
    {d \in UNION {[1..n -> DimNames] : n \in 2..3} :
        /\ \A a, b \in DOMAIN d : a # b => d[a] # d[b]
        /\ {"time", "z"} \subseteq Range(d)}

InitFlat ==
    /\ FigureInit
    /\ \E dims \in FlatDims : \E kind \in {"valid", "nodata", "empty"} :
       \E targetcount \in 0..MaxLen, sourcecount \in 0..MaxLen :
          call = [fn |-> "VariableFlat.getSlice", kind |-> kind, dims |-> dims,
                  targetcount |-> targetcount, sourcecount |-> sourcecount]
    /\ ret = Pending

\* VariableFlat(source, "z", "time").getSlice(bounds), one unbounded pair per
\* remaining dimension.
CallFlat ==
    /\ call.fn = "VariableFlat.getSlice"
    /\ ret = Pending
    /\ LET source == PlainVariable("src", "source", call.dims, FlatSource(call))
           var == VariableFlat(source, "z", "time").var
       IN  ret' = getSlice(var, [a \in 1..(Len(call.dims) - 1) |-> <<NoNum, NoNum>>])
    /\ UNCHANGED <<figvars, call>>

NextFlat == CallFlat

SpecFlat == InitFlat /\ [][NextFlat]_vars

(* ---- Slicing a merged variable ----------------------------------------- *)
\* The most stores merged.
MaxStores == 3

\* The variable "temp" of store k (from 0): a series of three time steps
\* with the values 10k + 1, 10k + 2, 10k + 3.
StoreSlice(k) ==
    [dimensions  |-> <<"time">>,
     ndim        |-> 1,
     data        |-> Data(<<3>>, [t \in Idx(<<3>>) |-> 10 * k + t[1]]),
     coords      |-> <<Arr(<<0, 2, 4>>)>>,
     coords_stag |-> <<Arr(getCenters(<<0, 2, 4>>))>>]

\* The merged variable of the first n stores.
MergedTemp(n) ==
    MergedVariable([k \in 1..n |->
                       PlainVariable("temp", "temperature", <<"time">>,
                                     StoreSlice(k - 1))],
                   "obs")

\* An end of the bound on the merge dimension: None, or a number in half
\* units from below 0 to above the last store.
MergeBounds == {NoNum} \cup {Num(v) : v \in (-3)..(2 * MaxStores + 1)}

InitMerged ==
    /\ FigureInit
    /\ \E n \in 1..MaxStores : \E lower \in MergeBounds, upper \in MergeBounds :
          call = [fn |-> "MergedVariable.getSlice", nstores |-> n,
                  bound |-> <<lower, upper>>]
    /\ ret = Pending

\* getSlice([bound, (None,None)]) of the merged variable.
CallMerged ==
    /\ call.fn = "MergedVariable.getSlice"
    /\ ret = Pending
    /\ ret' = getSlice(MergedTemp(call.nstores), <<call.bound, <<NoNum, NoNum>>>>)
    /\ UNCHANGED <<figvars, call>>

NextMerged == CallMerged

SpecMerged == InitMerged /\ [][NextMerged]_vars

(* ---- A custom store and its variables ---------------------------------- *)
\* The most variables added to the store.
MaxVars == 3

\* The variables added: two names, and two variables of each name that
\* differ in their long name.
StoreVariables ==
    {PlainVariable(name, longname, <<"time">>, NewSlice(<<"time">>)) :
        name \in {"a", "b"}, longname \in {"one", "two"}}

\* The store is new and empty; call holds the store the calls are made on.
InitStore ==
    /\ FigureInit
    /\ call = [fn |-> "CustomVariableStore", store |-> CustomVariableStore(<<>>)]
    /\ ret = Pending

StoreAddVariable ==
    /\ call.fn = "CustomVariableStore"
    /\ Len(call.store.vars) < MaxVars
    /\ \E var \in StoreVariables :
          call' = [call EXCEPT !.store = CustomVariableStore_addVariable(@, var)]
    /\ ret' = Pending
    /\ UNCHANGED figvars

StoreGetVariableNames ==
    /\ call.fn = "CustomVariableStore"
    /\ ret' = [status |-> "names", names |-> getVariableNames(call.store)]
    /\ UNCHANGED <<figvars, call>>

StoreGetVariable ==
    /\ call.fn = "CustomVariableStore"
    /\ \E varname \in {"a", "b", "c"} :
          ret' = [status |-> "variable", varname |-> varname,
                  var |-> CustomVariableStore_getVariable(call.store, varname)]
    /\ UNCHANGED <<figvars, call>>

NextStore == StoreAddVariable \/ StoreGetVariableNames \/ StoreGetVariable

SpecStore == InitStore /\ [][NextStore]_vars

(* ---- Squeezing a slice ------------------------------------------------- *)
\* The slice squeeze is called on: the drawn dimensions with the drawn
\* lengths (a slice is valid with dimensions of length 0 as well); the
\* coordinates of a dimension are 1, 2, ... (2, 4, ... in half units), the
\* value at an index is a number that no other index has.
SqueezeSource(c) ==
    LET n == Len(c.dims) IN
    [dimensions  |-> c.dims,
     ndim        |-> n,
     data        |-> Data(c.shape,
                          [t \in Idx(c.shape) |->
                              t[1] + (IF n > 1 THEN 10 * t[2] ELSE 0)
                                   + (IF n > 2 THEN 100 * t[3] ELSE 0)]),
     coords      |-> [a \in 1..n |-> Arr([k \in 1..c.shape[a] |-> 2 * k])],
     coords_stag |-> [a \in 1..n |-> Arr([k \in 1..(c.shape[a] + 1) |-> 2 * k - 1])]]

SqueezeDims ==
    {d \in UNION {[1..n -> DimNames] : n \in 1..3} :
        \A a, b \in DOMAIN d : a # b => d[a] # d[b]}

InitSqueeze ==
    /\ FigureInit
    /\ \E dims \in SqueezeDims : \E shape \in [1..Len(dims) -> 0..MaxLen] :
          call = [fn |-> "Slice.squeeze", dims |-> dims, shape |-> shape]
    /\ ret = Pending

\* s.squeeze()
CallSqueeze ==
    /\ call.fn = "Slice.squeeze"
    /\ ret = Pending
    /\ ret' = [status |-> "ok", times |-> 1, slice |-> squeeze(SqueezeSource(call))]
    /\ UNCHANGED <<figvars, call>>

\* s.squeeze().squeeze()
CallSqueezeAgain ==
    /\ call.fn = "Slice.squeeze"
    /\ ret # Pending
    /\ ret.times = 1
    /\ ret' = [status |-> "ok", times |-> 2, slice |-> squeeze(ret.slice)]
    /\ UNCHANGED <<figvars, call>>

NextSqueeze == CallSqueeze \/ CallSqueezeAgain

SpecSqueeze == InitSqueeze /\ [][NextSqueeze]_vars

(* ---- Generating interface coordinates ---------------------------------- *)
\* The centre coordinates of dimension "x": whole numbers (even in half
\* units) in any order.
Centres == UNION {[1..n -> {2 * k : k \in 0..MaxCoord}] : n \in 0..MaxLen}

\* The slice generateStaggered is called on: "x" has the drawn centres, "y"
\* (when there) two; kind is "centres", "nocoords" (the coordinates of the
\* last dimension are None) or "coords2d" (they depend on other dimensions).
StaggerSource(c) ==
    LET n == Len(c.dims) IN
    [dimensions  |-> c.dims,
     ndim        |-> n,
     data        |-> NoData,
     coords      |-> [i \in 1..n |->
                        IF i = n /\ c.kind = "nocoords" THEN NoArr
                        ELSE IF i = n /\ c.kind = "coords2d"
                        THEN [set |-> TRUE, nd |-> 2, v |-> <<>>]
                        ELSE IF c.dims[i] = "x" THEN Arr(c.centres)
                        ELSE Arr(<<0, 2>>)],
     coords_stag |-> [i \in 1..n |-> NoArr]]

InitStagger ==
    /\ FigureInit
    /\ \E centres \in Centres : \E kind \in {"centres", "nocoords", "coords2d"} :
       \E dims \in {<<"x">>, <<"x", "y">>, <<"y", "x">>} :
          call = [fn |-> "Slice.generateStaggered", kind |-> kind, dims |-> dims,
                  centres |-> centres]
    /\ ret = Pending

CallGenerateStaggered ==
    /\ call.fn = "Slice.generateStaggered"
    /\ ret = Pending
    /\ ret' = generateStaggered(StaggerSource(call))
    /\ UNCHANGED <<figvars, call>>

NextStagger == CallGenerateStaggered

SpecStagger == InitStagger /\ [][NextStagger]_vars

(* ======================================================================= *)
(* Claims                                                                   *)
(* ======================================================================= *)

\* C1: while updates are suspended no rebuild runs, and the
\* setUpdating(True) that ends the suspension runs exactly one rebuild if at
\* least one update request was made during the suspension and none if no
\* request was made during it.
C1_Original ==
    /\ [](~updating => out.rebuilds = 0)
    /\ [][(~updating /\ updating') =>
            out'.rebuilds = (IF requests >= 1 THEN 1 ELSE 0)]_vars

\* C2: while updates are suspended a call of update() (direct, or from a
\* property change) only marks the figure dirty: nothing is drawn or cleared,
\* the forced and the default tree stay as they are, no callback is called;
\* the other requests (addVariable, setProperties) leave the surface, the
\* default title and axes alone too and call no callback.
C2_SuspendedRequestOnlyMarksDirty ==
    /\ [][(~updating /\ (Update \/ onPropertyStoreChanged)) =>
            /\ dirty'
            /\ out'.rebuilds = 0 /\ out'.fired = <<>>
            /\ UNCHANGED <<canvas, forcedseries, forcedaxes, defaultseries,
                           defaulttitle, defaultaxes>>]_vars
    /\ [][(~updating /\ requests' = requests + 1) =>
            /\ dirty'
            /\ out'.rebuilds = 0 /\ out'.fired = <<>>
            /\ UNCHANGED <<canvas, defaulttitle, defaultaxes>>]_vars
    /\ [](~updating =>
            LET u == update(updating, forcedseries, defaultseries, forcedaxes)
            IN  /\ u.dirty
                /\ u.out.rebuilds = 0 /\ u.out.fired = <<>>
                /\ u.canvas = canvas
                /\ u.defaultseries = defaultseries
                /\ u.defaulttitle = defaulttitle
                /\ u.defaultaxes = defaultaxes
                /\ u.forcedaxes = forcedaxes)

\* A plotted figure with a callback, suspended, that received a request.
C2_Witness ==
    /\ ~updating
    /\ requests >= 1
    /\ dirty
    /\ callbacks >= 1
    /\ canvas.plotted # <<>>
    /\ defaultseries # {}

\* C7: the default source is unset exactly when the registry is empty and
\* otherwise one of its keys; it is the name registered into the empty
\* registry and is kept by every later registration; a rebuild resolves a
\* series path with an empty source part to it.
C7_DefaultSource ==
    /\ []((defaultsource = None) <=> (DOMAIN sources = {}))
    /\ [](defaultsource # None => defaultsource \in DOMAIN sources)
    /\ [][(DOMAIN sources = {} /\ DOMAIN sources' # {}) =>
            DOMAIN sources' = {defaultsource'}]_vars
    /\ [][(DOMAIN sources # {} /\ DOMAIN sources' # {}) =>
            defaultsource' = defaultsource]_vars
    /\ [](out.rebuilds = 1 =>
            \A k \in DOMAIN out.loop.resolved :
                out.loop.resolved[k][1][1] = "" =>
                    out.loop.resolved[k][2] = defaultsource)

\* "b" was registered first and "a" after it; a rebuild resolved a path
\* without source part to "b".
C7_Witness ==
    /\ DOMAIN sources = {"a", "b"}
    /\ defaultsource = "b"
    /\ out.rebuilds = 1
    /\ \E k \in DOMAIN out.loop.resolved :
          out.loop.resolved[k] = <<VarPath("line", None), "b">>

\* The rebuild that the last step ran, if it ran one.
Rebuilt == out.rebuilds = 1
Completed == out.rebuilds = 1 /\ out.status = "ok"
ConfiguredIds == {forcedseries[i].id : i \in 1..Len(forcedseries)}

\* C3 (as stated): a completed rebuild calls every registered callback once,
\* with argument true exactly if at least one series was plotted in it.
C3_Original ==
    Completed =>
        /\ Len(out.fired) = callbacks
        /\ \A k \in 1..Len(out.fired) : out.fired[k] = (Len(out.loop.plotted) > 0)

\* C3 (amended): a completed rebuild calls every registered callback once,
\* with argument true exactly if the configuration holds at least one
\* series, plotted or skipped; a rebuild that aborts calls none.
C3_CallbackArgument ==
    /\ Completed =>
          /\ Len(out.fired) = callbacks
          /\ \A k \in 1..Len(out.fired) : out.fired[k] = (Len(forcedseries) > 0)
    /\ (Rebuilt /\ ~Completed) => out.fired = <<>>

\* A completed rebuild that plotted nothing told its callback true.
C3_Witness ==
    /\ Completed
    /\ callbacks = 1
    /\ forcedseries # <<>>
    /\ out.loop.plotted = <<>>
    /\ out.fired = <<TRUE>>

\* C4 (as stated): after a completed rebuild the default tree holds a
\* Series entry only for the series plotted in that rebuild.
C4_Original ==
    Completed => defaultseries \subseteq Range(out.loop.plotted)

\* C4 (amended): after a completed rebuild the default tree holds a Series
\* entry for exactly the configured series with a non-empty id: the entries
\* of series removed from the configuration are gone and an empty id gets
\* none, but a series skipped for an invalid slice keeps its entry.
C4_DefaultSeries ==
    Completed =>
        /\ defaultseries = ConfiguredIds \ {EmptyId}
        /\ Range(out.loop.plotted) \subseteq defaultseries
        /\ Range(out.loop.skipped) \subseteq defaultseries

\* A completed rebuild removed a stale entry, plotted a series and kept the
\* entry of a series it skipped for an invalid slice.
C4_Witness ==
    /\ Completed
    /\ out.loop.olddefaults # {}
    /\ out.loop.olddefaults \cap defaultseries = {}
    /\ out.loop.plotted # <<>>
    /\ \E p \in Range(out.loop.skipped) : p \in defaultseries

\* The configuration without the series that the loop skipped for an
\* invalid slice.
WithoutSkipped(series, skipped) ==
    SelectSeq(series, LAMBDA node : node.id \notin Range(skipped))

\* Two outcomes of the loop agree in how the rebuild ends, in what is
\* plotted and in every range and axis binding.
SameFigure(full, less) ==
    /\ full.status = less.status
    /\ full.plotted = less.plotted
    /\ full.dimrange = less.dimrange
    /\ full.dimaxis = less.dimaxis
    /\ full.used = less.used
    /\ full.seraxis = less.seraxis
    /\ full.serrange = less.serrange
    /\ full.colorbars = less.colorbars
    /\ BoundAxes(full) = BoundAxes(less)

\* C5: a series whose fetched slice is invalid is passed over: it is not
\* plotted and gets no data range and no axis, and the rebuild ends as the
\* rebuild of the configuration without it does: with the same outcome, the
\* same series plotted, the same dimension ranges, used dimensions, axis
\* bindings, colorbars and default axes.
C5_InvalidSliceSkipped ==
    /\ [](Rebuilt =>
            \A p \in Range(out.loop.skipped) :
                /\ p \notin Range(out.loop.plotted)
                /\ p \notin DOMAIN out.loop.seraxis
                /\ p \notin DOMAIN out.loop.serrange)
    /\ [][(Update /\ out'.loop.skipped # <<>>) =>
            SameFigure(out'.loop,
                       SeriesLoop(StartUpdate(defaultseries, forcedaxes),
                                  WithoutSkipped(forcedseries, out'.loop.skipped),
                                  sources, defaultsource))]_vars

\* A completed rebuild skipped a series for an invalid slice and plotted the
\* series configured after it.
C5_Witness ==
    /\ Completed
    /\ Len(forcedseries) = 2
    /\ out.loop.skipped = <<forcedseries[1].id>>
    /\ out.loop.plotted = <<forcedseries[2].id>>

\* The k-th series the rebuild resolved to a store names a variable that the
\* store does not return.
MissingAt(k) ==
    LET r == out.loop.resolved[k]
    IN  getVariable(Store(sources[r[2]]), r[1][2]).var.kind = "none"
MergedAt(k) == Store(sources[out.loop.resolved[k][2]]).kind = "merged"
LastAbort(k) ==
    /\ out.status = "AssertionError"
    /\ k = Len(out.loop.resolved)
    /\ out.loop.resolved[k][1] \notin Range(out.loop.plotted)

\* C6 (as stated): inside a rebuild a variable missing from a store of a
\* merged source is reported and the series passed over, the rebuild going on
\* with the next series, whereas a variable missing from a plain source
\* aborts the rebuild with an assertion failure.
C6_Original ==
    Rebuilt =>
        \A k \in 1..Len(out.loop.resolved) :
            MissingAt(k) =>
                IF MergedAt(k)
                THEN out.loop.reports # <<>> /\ ~LastAbort(k)
                ELSE LastAbort(k)

\* C6 (amended): inside a rebuild a missing variable aborts the rebuild with
\* an assertion failure whether its source is merged or plain: the series is
\* the last one looked at, no callback is called; the two cases differ in
\* the report only, which the merged source prints (naming the variable)
\* before the assertion fails and the plain source does not.
C6_MissingVariable ==
    Rebuilt =>
        \A k \in 1..Len(out.loop.resolved) :
            MissingAt(k) =>
                /\ LastAbort(k)
                /\ out.fired = <<>>
                /\ IF MergedAt(k)
                   THEN /\ Len(out.loop.reports) = 1
                        /\ out.loop.reports[1][2] = out.loop.resolved[k][1][2]
                   ELSE out.loop.reports = <<>>

\* A rebuild plotted one series and aborted at the next, whose variable the
\* second store of a merged source does not have.
C6_Witness ==
    /\ Rebuilt
    /\ Len(out.loop.resolved) = 2
    /\ MissingAt(2) /\ MergedAt(2)
    /\ out.status = "AssertionError"
    /\ out.loop.reports = <<<<2, "map">>>>
    /\ Len(out.loop.plotted) = 1

\* The series the rebuild drew with a colour-mapped artist (pseudocolor mesh
\* or filled contours), each of which asks for the colorbar.
NeedColorbar == {p \in DOMAIN out.loop.seraxis : out.loop.seraxis[p] = "colorbar"}

\* C8: a completed rebuild has drawn at most one colorbar, for at most one
\* series that needs one; a rebuild that comes to a second series that needs
\* a colorbar aborts with an assertion failure, one colorbar drawn.
C8_OneColorbar ==
    /\ canvas.colorbars <= 1
    /\ Completed => Cardinality(NeedColorbar) = canvas.colorbars
    /\ (Rebuilt /\ Cardinality(NeedColorbar) >= 2) =>
            /\ out.status = "AssertionError"
            /\ out.fired = <<>>
            /\ canvas.colorbars = 1

\* A rebuild aborted at the second of two series that need a colorbar.
C8_Witness ==
    /\ Rebuilt
    /\ Cardinality(NeedColorbar) = 2
    /\ out.status = "AssertionError"
    /\ canvas.colorbars = 1
    /\ Len(canvas.plotted) = 2

\* A finished call of getSlice on a VariableSlice whose source slice has n
\* coordinates, an array of one dimension, along the sliced dimension.
Sliced(n) ==
    /\ call # NoCall
    /\ ret # Pending
    /\ call.kind \in {"valid", "nodata"}
    /\ Len(call.coords) = n
Returned == ret.status = "ok"
First == call.coords[1]
Last == call.coords[Len(call.coords)]

\* The source value at x-index i and y-index j, as SourceSlice lays it out.
SourceValue(i, j) == 20 + 4 * (i - 1) + 2 * (j - 1)

\* C9: with a valid source slice and a target strictly inside its
\* coordinate range, getSlice returns a valid slice without the sliced
\* dimension whose data is left + relstep * (right - left) for the two rows
\* around the target, relstep = (target - leftx) / (rightx - leftx); at an
\* interior grid coordinate that is the grid row itself.
C9_Interpolates ==
    (/\ call # NoCall /\ ret # Pending
     /\ call.kind = "valid"
     /\ Len(call.coords) >= 2
     /\ First < call.sliceval /\ call.sliceval < Last) =>
        LET ipos == searchsorted(call.coords, call.sliceval)
            leftx == call.coords[ipos]
            rightx == call.coords[ipos + 1]
        IN  /\ Returned
            /\ isValid(ret.slice)
            /\ "x" \notin Range(ret.slice.dimensions)
            /\ ret.slice.ndim = Len(call.dims) - 1
            /\ \A t \in Idx(ret.slice.data.shape) :
                  LET left == SourceValue(ipos, t[1])
                      right == SourceValue(ipos + 1, t[1])
                  IN  (ret.slice.data.v[t] - left) * (rightx - leftx)
                          = (call.sliceval - leftx) * (right - left)

Constructed ==
    /\ call # NoCall
    /\ call.fn \in {"VariableSlice", "VariableAverage", "VariableFlat"}
    /\ ret # Pending

\* C11: constructing a slice, average or flatten transform succeeds exactly
\* if the named dimension (for flatten, the target dimension too) is in the
\* source's dimension list; then idimension is the position of the dimension
\* in that list and getDimensions() is the list with that one entry removed,
\* the others in their order.
C11_ReducedDimensions ==
    Constructed =>
        LET dims == getDimensions(SourceVariable(call)) IN
        /\ (ret.status = "ok") <=>
              /\ call.dimension \in Range(dims)
              /\ call.fn = "VariableFlat" => call.targetdim \in Range(dims)
        /\ ret.status = "ok" =>
              /\ ret.var.idimension \in 1..Len(dims)
              /\ dims[ret.var.idimension] = call.dimension
              /\ getDimensions(ret.var) = RemoveAt(dims, ret.var.idimension)

\* A finished VariableAverage.getSlice call, and one that returned the
\* reduction of a valid source slice.
Averaged ==
    /\ call # NoCall
    /\ call.fn = "VariableAverage.getSlice"
    /\ ret # Pending
ReducedValid == Averaged /\ call.kind = "valid" /\ ret.status = "ok"

\* The position of "x" in the source, the interface widths along it, and the
\* source values along it at index t of the result.
AxisX == CHOOSE i \in DOMAIN call.dims : call.dims[i] = "x"
Widths == [k \in DOMAIN call.data |-> call.stag[k + 1] - call.stag[k]]
Values(t) ==
    [k \in DOMAIN call.data |-> AverageSource(call).data.v[InsertAt(t, AxisX, k)]]
RECURSIVE SumSeq(_)
SumSeq(s) == IF s = <<>> THEN 0 ELSE s[1] + SumSeq(Tail(s))
Dot(a, b) == SumSeq([k \in DOMAIN a |-> a[k] * b[k]])

\* C12: with the mean as centre the reduced data is the sum of the source
\* values along the reduced dimension weighted by the interface cell widths,
\* the weights scaled to sum to one (for equal widths the arithmetic mean:
\* 10, 12, 14 gives 12); the coordinates of the other dimensions are those of
\* the source, in their order.
C12_WeightedMean ==
    ReducedValid /\ call.centermeasure = 0 =>
        /\ \A t \in DOMAIN ret.slice.data.v :
              /\ ret.slice.data.v[t].n * SumSeq(Widths)
                    = ret.slice.data.v[t].d * Dot(Values(t), Widths)
              /\ (\A k \in DOMAIN Widths : Widths[k] = Widths[1]) =>
                    ret.slice.data.v[t].n * Len(call.data)
                        = ret.slice.data.v[t].d * SumSeq(Values(t))
        /\ call.data = <<20, 24, 28>> /\ Widths = <<2, 2, 2>> =>
              ret.slice.data.v[[i \in 1..(Len(call.dims) - 1) |-> 1]] = Frac(24, 1)
        /\ ret.slice.coords = RemoveAt(AverageSource(call).coords, AxisX)
        /\ ret.slice.coords_stag = RemoveAt(AverageSource(call).coords_stag, AxisX)
        /\ ret.slice.data.shape = RemoveAt(AverageSource(call).data.shape, AxisX)

\* A weighted mean that is not the arithmetic mean, with another dimension
\* carried over; and the mean 12 of 10, 12, 14.
C12_Witness ==
    /\ ReducedValid
    /\ call.centermeasure = 0
    /\ call.dims = <<"y", "x">>
    /\ call.data = <<20, 28>>
    /\ Widths = <<2, 4>>
    /\ ret.slice.data.v[<<1>>] = Frac(76, 3)
    /\ ret.slice.coords = <<Arr(<<0, 2>>)>>

\* The weighted mean and the weighted variance E[x^2] - E[x]^2 of the source
\* values at index t of the result, from the cell widths.
MeanIs(m, t) == m.n * SumSeq(Widths) = m.d * Dot(Values(t), Widths)
VarianceIs(r, t) ==
    r.n * SumSeq(Widths) * SumSeq(Widths)
        = r.d * (SumSeq(Widths) * Dot([k \in DOMAIN Widths |-> Values(t)[k] * Values(t)[k]],
                                      Widths)
                 - Dot(Values(t), Widths) * Dot(Values(t), Widths))
HalfWidthIs(t) ==
    /\ ret.slice.lbound.v[t].s = -1
    /\ ret.slice.ubound.v[t].s = 1
    /\ ret.slice.lbound.v[t].r = ret.slice.ubound.v[t].r
    /\ VarianceIs(ret.slice.lbound.v[t].r, t)

\* C13 as stated: with the standard deviation as bounds measure the bounds
\* are mean - sqrt(variance) and mean + sqrt(variance) for either centre
\* measure: their mid-point is the weighted mean, their squared half-width
\* the weighted variance.
C13_Original ==
    ReducedValid /\ call.boundsmeasure = 0 =>
        \A t \in DOMAIN ret.slice.data.v :
            /\ HalfWidthIs(t)
            /\ ret.slice.lbound.v[t].a = ret.slice.ubound.v[t].a
            /\ MeanIs(ret.slice.lbound.v[t].a, t)

\* C13: with the standard deviation as bounds measure the bounds are
\* centre - sqrt(variance) and centre + sqrt(variance), where centre is the
\* reduced data (the weighted mean for centre measure mean, the weighted
\* median for centre measure median) and variance is the weighted
\* E[x^2] - E[x]^2: the squared half-width is the weighted variance for
\* either centre measure, the mid-point is the weighted mean for centre
\* measure mean.
C13_AroundCenter ==
    ReducedValid /\ call.boundsmeasure = 0 =>
        \A t \in DOMAIN ret.slice.data.v :
            /\ HalfWidthIs(t)
            /\ ret.slice.lbound.v[t].a = ret.slice.data.v[t]
            /\ ret.slice.ubound.v[t].a = ret.slice.data.v[t]
            /\ call.centermeasure = 0 => MeanIs(ret.slice.data.v[t], t)

\* Bounds around a median that is not the mean: 10 and 14 with cell widths
\* 1 and 2 have the mean 38/3 and the median 12.5 (50/3 and 25 in half units).
C13_Witness ==
    /\ ReducedValid
    /\ call.boundsmeasure = 0
    /\ call.centermeasure = 1
    /\ call.dims = <<"x">>
    /\ call.data = <<20, 28>>
    /\ Widths = <<2, 4>>
    /\ ret.slice.data.v[<<>>] = Frac(25, 1)
    /\ ret.slice.lbound.v[<<>>] = Surd(Frac(25, 1), -1, Frac(128, 9))
    /\ ret.slice.ubound.v[<<>>] = Surd(Frac(25, 1), 1, Frac(128, 9))

Flattened ==
    /\ call # NoCall
    /\ call.fn = "VariableFlat.getSlice"
    /\ ret # Pending
    /\ call.kind = "valid"

\* The positions of the target and of the flattened dimension in the source
\* and of the target dimension in the result.
ITarget == CHOOSE a \in DOMAIN call.dims : call.dims[a] = "time"
IFlat == CHOOSE a \in DOMAIN call.dims : call.dims[a] = "z"
INewTarget == IF IFlat < ITarget THEN ITarget - 1 ELSE ITarget

\* C15: VariableFlat.getSlice re-indexes without loss: the value of the
\* source at target index i and flattened index j (from 0) is at position
\* i*sourceCount+j of the target axis of the result, at the same indices of
\* the other dimensions, the target coordinate there is the source's at i,
\* the target axis has targetCount*sourceCount points, and every (i, j) is
\* found again from its position, whichever of the two dimensions comes
\* first in the source.
C15_LosslessReindexing ==
    Flattened =>
        /\ ret.status = "ok"
        /\ ret.slice.data.shape[INewTarget] = call.targetcount * call.sourcecount
        /\ Len(ret.slice.coords[INewTarget].v) = call.targetcount * call.sourcecount
        /\ \A t \in DOMAIN FlatSource(call).data.v :
              LET pos == (t[ITarget] - 1) * call.sourcecount + t[IFlat]
                  u == [RemoveAt(t, IFlat) EXCEPT ![INewTarget] = pos]
              IN  /\ ret.slice.data.v[u] = FlatSource(call).data.v[t]
                  /\ ret.slice.coords[INewTarget].v[pos]
                        = FlatSource(call).coords[ITarget].v[t[ITarget]]
                  /\ ((pos - 1) \div call.sourcecount) + 1 = t[ITarget]
                  /\ ((pos - 1) % call.sourcecount) + 1 = t[IFlat]

\* A finished MergedVariable.getSlice call and the index range of its bound.
MergedCalled ==
    /\ call # NoCall
    /\ call.fn = "MergedVariable.getSlice"
    /\ ret # Pending
IFirst == MergedIndexRange(call.bound, call.nstores)[1]
ILast == MergedIndexRange(call.bound, call.nstores)[2]

\* C16: for N merged stores and every bound on the merge dimension (either
\* end unset or any number) the selected index range [first, last] has
\* 0 <= first <= last <= N-1, and the call returns a slice.
C16_Clamped ==
    MergedCalled =>
        /\ 0 <= IFirst
        /\ IFirst <= ILast
        /\ ILast <= call.nstores - 1
        /\ ret.status = "ok"

Named(store, varname) ==
    {i \in 1..Len(store.vars) : store.vars[i].name = varname}

\* C18: the custom store is append-only and resolves a name by first match:
\* a call changes the list of variables only by adding one variable at its
\* end; getVariableNames gives the names of all added variables in the order
\* they were added, duplicates included; getVariable(name) gives the variable
\* of that name added first, and no variable if none has the name.
C18_AppendOnlyFirstMatch ==
    [][call.fn = "CustomVariableStore" =>
        /\ call'.store # call.store =>
              /\ Len(call'.store.vars) = Len(call.store.vars) + 1
              /\ SubSeq(call'.store.vars, 1, Len(call.store.vars)) = call.store.vars
              /\ call'.store.vars[Len(call'.store.vars)] \in StoreVariables
        /\ ret'.status = "names" =>
              /\ Len(ret'.names) = Len(call'.store.vars)
              /\ \A i \in 1..Len(call'.store.vars) :
                    ret'.names[i] = call'.store.vars[i].name
        /\ ret'.status = "variable" =>
              IF Named(call'.store, ret'.varname) = {} THEN ret'.var = NoVar
              ELSE /\ ret'.var \in StoreVariables
                   /\ ret'.var.name = ret'.varname
                   /\ ret'.var = call'.store.vars[SetMin(Named(call'.store, ret'.varname))]
    ]_vars

\* Two variables named "a" were added, "b" between them, and getVariable("a")
\* has given the one added first.
C18_Witness ==
    /\ call # NoCall
    /\ call.fn = "CustomVariableStore"
    /\ Len(call.store.vars) = 3
    /\ call.store.vars[1].name = "a" /\ call.store.vars[1].longname = "two"
    /\ call.store.vars[2].name = "b"
    /\ call.store.vars[3].name = "a" /\ call.store.vars[3].longname = "one"
    /\ ret.status = "variable"
    /\ ret.varname = "a"
    /\ ret.var = call.store.vars[1]

\* s.squeeze() has returned.
Squeezed ==
    /\ call # NoCall
    /\ call.fn = "Slice.squeeze"
    /\ ret # Pending
    /\ ret.times = 1

\* The positions of the dimensions of the source with the given lengths.
DimsOfLength(lengths) ==
    SelectSeq(Iota(Len(call.dims)), LAMBDA a : call.shape[a] \in lengths)

\* C19: squeeze returns a slice whose dimensions are, in order, the
\* dimensions of the original whose data length is not 1, as many as the
\* squeezed data has axes (also where a dimension has length 0), and whose
\* fixedcoords are, in order, the dimensions removed, each with its one
\* coordinate.
C19_SqueezedDimensions ==
    Squeezed =>
        /\ ret.slice.dimensions
              = [k \in 1..Len(DimsOfLength(0..MaxLen \ {1})) |->
                    call.dims[DimsOfLength(0..MaxLen \ {1})[k]]]
        /\ ret.slice.ndim = Len(ret.slice.dimensions)
        /\ ret.slice.ndim = Len(ret.slice.data.shape)
        /\ ret.slice.data.shape
              = [k \in 1..Len(DimsOfLength(0..MaxLen \ {1})) |->
                    call.shape[DimsOfLength(0..MaxLen \ {1})[k]]]
        /\ ret.slice.fixedcoords
              = [k \in 1..Len(DimsOfLength({1})) |->
                    <<call.dims[DimsOfLength({1})[k]], 2>>]

\* C20: squeeze is idempotent: for every valid slice s, whatever the lengths
\* of its dimensions, s.squeeze().squeeze() has the dimensions and the data
\* of s.squeeze().
C20_Idempotent ==
    [][call.fn = "Slice.squeeze" /\ ret # Pending /\ ret'.times = 2 =>
        /\ ret'.slice.dimensions = ret.slice.dimensions
        /\ ret'.slice.data = ret.slice.data]_vars

\* generateStaggered has returned on a slice with 1-D centres of "x", two or
\* more; the centres and the interfaces of "x".
Staggered ==
    /\ call # NoCall
    /\ call.fn = "Slice.generateStaggered"
    /\ ret # Pending
    /\ call.kind = "centres"
    /\ Len(call.centres) >= 2
XStag == ret.slice.coords_stag[CHOOSE i \in DOMAIN call.dims : call.dims[i] = "x"].v

\* The mid-point rule with extrapolated ends, in half units.
ByMidPointRule(c, stag) ==
    /\ Len(stag) = Len(c) + 1
    /\ 2 * stag[1] = 3 * c[1] - c[2]
    /\ \A i \in 2..Len(c) : 2 * stag[i] = c[i - 1] + c[i]
    /\ 2 * stag[Len(c) + 1] = 3 * c[Len(c)] - c[Len(c) - 1]

\* C21 as stated: for 1-D centres of length n >= 2 generateStaggered gives
\* n+1 interfaces by the mid-point rule with extrapolated ends, and they
\* bracket every centre: stag[i] <= centre[i] <= stag[i+1].
C21_Original ==
    Staggered =>
        /\ ret.status = "ok"
        /\ ByMidPointRule(call.centres, XStag)
        /\ \A i \in DOMAIN call.centres :
              XStag[i] <= call.centres[i] /\ call.centres[i] <= XStag[i + 1]

\* C21: for 1-D centres of length n >= 2 generateStaggered gives n+1
\* interfaces by the mid-point rule with extrapolated ends; where the centres
\* do not decrease the interfaces bracket every centre,
\* stag[i] <= centre[i] <= stag[i+1], and where they do not increase they
\* bracket it in the opposite sense, stag[i] >= centre[i] >= stag[i+1].
C21_Brackets ==
    Staggered =>
        /\ ret.status = "ok"
        /\ ByMidPointRule(call.centres, XStag)
        /\ (\A i \in 2..Len(call.centres) : call.centres[i - 1] <= call.centres[i])
             => \A i \in DOMAIN call.centres :
                   XStag[i] <= call.centres[i] /\ call.centres[i] <= XStag[i + 1]
        /\ (\A i \in 2..Len(call.centres) : call.centres[i - 1] >= call.centres[i])
             => \A i \in DOMAIN call.centres :
                   XStag[i] >= call.centres[i] /\ call.centres[i] >= XStag[i + 1]

\* Increasing centres 0, 1, 3 with the interfaces -0.5, 0.5, 2, 4.
C21_Witness ==
    /\ Staggered
    /\ call.centres = <<0, 2, 6>>
    /\ ret.status = "ok"
    /\ XStag = <<-1, 1, 4, 8>>

(* ---- Figure.update: the limits of the bound axes ----------------------- *)
\* An Axis entry of the forced tree as the axis loop reads it: the forced
\* Minimum and Maximum (NoNum when unset) and the effective LogScale (the
\* default tree holds False, line 1275).
AxisNode(minimum, maximum, logscale) ==
    [Minimum |-> minimum, Maximum |-> maximum, LogScale |-> logscale]

\* Python 2 orders None below every number: None <= 0 holds.
NonPositive(x) == ~x.set \/ x.v <= 0

\* Lines 1302-1308: the range MatPlotLib selected for an x or y axis that is
\* not tight (view is what axes.get_xlim() and axes.get_ylim() return), the
\* data range otherwise.
naturalrange(axisname, dat, view) ==
    IF axisname \in {"x", "y"} /\ ~dat.tight THEN view[axisname] ELSE dat.datarange

\* Lines 1320-1322: under a log scale a forced end that is not positive is
\* dropped.
LogForced(axisnode) ==
    IF axisnode.LogScale
    THEN <<IF NonPositive(axisnode.Minimum) THEN NoNum ELSE axisnode.Minimum,
           IF NonPositive(axisnode.Maximum) THEN NoNum ELSE axisnode.Maximum>>
    ELSE <<axisnode.Minimum, axisnode.Maximum>>

\* Lines 1323-1327: under a log scale a natural minimum that is not positive
\* is replaced by the lower view limit of the x or y axis.
LogNatural(axisname, axisnode, natural, view) ==
    IF axisnode.LogScale /\ natural[1] <= 0 /\ axisname \in {"x", "y"}
    THEN <<view[axisname][1], natural[2]>>
    ELSE natural

\* The limits are the natural range whatever the user forced.
effrange_Natural(forcedrange, natural) == natural

\* Lines 1334-1337: the forced range, each unset end replaced by the natural
\* one.
effrange(forcedrange, natural) ==
    <<IF forcedrange[1].set THEN forcedrange[1].v ELSE natural[1],
      IF forcedrange[2].set THEN forcedrange[2].v ELSE natural[2]>>

\* Lines 1286-1461 for one bound axis: the limits the loop computes.
AxisRange(axisname, dat, axisnode, view) ==
    effrange(LogForced(axisnode),
             LogNatural(axisname, axisnode, naturalrange(axisname, dat, view), view))

\* Lines 1288-1461: the loop over the bound axes.  effrange is computed for
\* each of them; set_xlim and set_ylim apply it to the x and the y axis, the
\* view of an axis that is not bound stays.
SetLimits(dim2data, nodes, view) ==
    [effrange |-> [a \in DOMAIN dim2data |-> AxisRange(a, dim2data[a], nodes[a], view)],
     view     |-> [a \in {"x", "y"} |->
                     IF a \in DOMAIN dim2data
                     THEN AxisRange(a, dim2data[a], nodes[a], view) ELSE view[a]]]

\* The axes a dimension or a series is bound to in update(): line and map
\* plots bind "x", "y" and "colorbar" only.
BindableAxes == {"x", "y", "colorbar"}
\* Data ranges, forced ends and the view MatPlotLib selected, in half units.
DataRanges == {<<-4, 6>>, <<2, 6>>}
ForcedEnds == {NoNum, Num(-2), Num(0), Num(4)}
Views == {[x |-> <<-6, 8>>, y |-> <<1, 8>>], [x |-> <<1, 10>>, y |-> <<-6, 8>>]}

\* One axis with any forced settings, the others that are bound with none.
\* A dimension is tight (getDimensionInfo gives no 'tight'), a series is not
\* (line 990); the colorbar is bound to a series only.
InitLimits ==
    /\ FigureInit
    /\ ret = Pending
    /\ \E a \in BindableAxes, others \in SUBSET BindableAxes, view \in Views,
          datarange \in DataRanges, tight \in BOOLEAN,
          minimum \in ForcedEnds, maximum \in ForcedEnds, logscale \in BOOLEAN :
          /\ a = "colorbar" => ~tight
          /\ call = [fn       |-> "Figure.update.limits",
                     axis     |-> a,
                     dim2data |-> [b \in others \cup {a} |->
                                     IF b = a
                                     THEN [datarange |-> datarange, tight |-> tight]
                                     ELSE [datarange |-> <<2, 6>>, tight |-> FALSE]],
                     nodes    |-> [b \in others \cup {a} |->
                                     IF b = a THEN AxisNode(minimum, maximum, logscale)
                                     ELSE AxisNode(NoNum, NoNum, FALSE)],
                     view     |-> view]

CallSetLimits ==
    /\ call.fn = "Figure.update.limits"
    /\ ret = Pending
    /\ ret' = SetLimits(call.dim2data, call.nodes, call.view)
    /\ UNCHANGED <<figvars, call>>

NextLimits == CallSetLimits

SpecLimits == InitLimits /\ [][NextLimits]_vars

\* The axis loop has run; the forced settings and the natural range (lines
\* 1302-1308) of a bound axis.
LimitsSet == call # NoCall /\ call.fn = "Figure.update.limits" /\ ret # Pending
Natural(a) ==
    IF a \in {"x", "y"} /\ ~call.dim2data[a].tight
    THEN call.view[a] ELSE call.dim2data[a].datarange
Combined(forcedend, naturalend) == IF forcedend.set THEN forcedend.v ELSE naturalend
Applied(a) == IF a \in {"x", "y"} THEN ret.view[a] ELSE ret.effrange[a]

\* C22 as stated: for every axis bound in a rebuild the limits are, end by
\* end, the user-forced value if it is set and the natural one otherwise.
C22_Original ==
    LimitsSet =>
        \A a \in DOMAIN call.dim2data :
            /\ Applied(a)[1] = Combined(call.nodes[a].Minimum, Natural(a)[1])
            /\ Applied(a)[2] = Combined(call.nodes[a].Maximum, Natural(a)[2])

\* C22: for every axis bound in a rebuild that has no log scale the limits
\* are, end by end and independently, the user-forced value if it is set and
\* the natural one otherwise; on a log-scale axis a forced end counts only if
\* it is positive, and a natural minimum of an x or y axis that is not
\* positive is replaced by the lower limit of the current view.  The limits
\* are set on the x and the y axis; an axis that is not bound keeps its view.
C22_EndByEnd ==
    LimitsSet =>
        /\ \A a \in DOMAIN call.dim2data :
              IF ~call.nodes[a].LogScale
              THEN /\ Applied(a)[1] = Combined(call.nodes[a].Minimum, Natural(a)[1])
                   /\ Applied(a)[2] = Combined(call.nodes[a].Maximum, Natural(a)[2])
              ELSE /\ Applied(a)[1]
                        = IF call.nodes[a].Minimum.set /\ call.nodes[a].Minimum.v > 0
                          THEN call.nodes[a].Minimum.v
                          ELSE IF Natural(a)[1] <= 0 /\ a \in {"x", "y"}
                          THEN call.view[a][1] ELSE Natural(a)[1]
                   /\ Applied(a)[2]
                        = IF call.nodes[a].Maximum.set /\ call.nodes[a].Maximum.v > 0
                          THEN call.nodes[a].Maximum.v ELSE Natural(a)[2]
        /\ \A a \in {"x", "y"} \ DOMAIN call.dim2data : ret.view[a] = call.view[a]

\* The tight x axis of data from -2 to 3 with the forced maximum 2 and no
\* forced minimum gets the limits -2 and 2.
C22_Witness ==
    /\ LimitsSet
    /\ call.axis = "x"
    /\ call.dim2data["x"] = [datarange |-> <<-4, 6>>, tight |-> TRUE]
    /\ call.nodes["x"] = AxisNode(NoNum, Num(4), FALSE)
    /\ ret.view["x"] = <<-4, 4>>

(* ---- getTimeTickSettings ------------------------------------------------ *)
\* Time spans are whole minutes here (a day is 1440); the program's unit
\* lengths 365, 30.5, 1, 1/24 and 1/1440 days, by location 0..4.
MinutesPerDay == 1440
unitlengths == <<525600, 43920, 1440, 60, 1>>

\* math.ceil of the quotient a/b of whole numbers, b > 0.
CeilDiv(a, b) == -((-a) \div b)

\* Lines 1579-1588: the default unit and tick format for a span.
DefaultLocation(dayspan) ==
    IF dayspan >= 2 * 365 * MinutesPerDay THEN <<0, 10>>
    ELSE IF dayspan >= 61 * MinutesPerDay THEN <<1, 4>>
    ELSE IF dayspan >= 2 * MinutesPerDay THEN <<2, 19>>
    ELSE IF 24 * dayspan >= 2 * MinutesPerDay THEN <<3, 15>>
    ELSE <<4, 15>>

\* Lines 1595-1598: the interval that gives at most preferredcount ticks.
DefaultInterval(dayspan, location, preferredcount) ==
    IF CeilDiv(dayspan, preferredcount * unitlengths[location + 1]) < 1 THEN 1
    ELSE CeilDiv(dayspan, preferredcount * unitlengths[location + 1])

\* The effective interval is returned as it is.
Clamp_None(dayspan, location, interval) == [status |-> "ok", interval |-> interval]

\* Line 1605: tickcount/interval > 100 replaces the interval; an interval of
\* zero fails in the division.  (For whole numbers, a/(u*i) > k is
\* ceil(ceil(a/u)/i) > k.)
Clamp(dayspan, location, interval) ==
    IF interval = 0 THEN [status |-> "ZeroDivisionError", interval |-> interval]
    ELSE IF interval > 0
            /\ CeilDiv(CeilDiv(dayspan, unitlengths[location + 1]), interval) > 100
    THEN [status |-> "ok", interval |-> CeilDiv(dayspan, 100 * unitlengths[location + 1])]
    ELSE [status |-> "ok", interval |-> interval]

\* settings[...].getValue(usedefault=True): the forced value or the default
\* just stored.
Effective(forced, default) == IF forced.set THEN forced.v ELSE default

\* Lines 1573-1607 from the effective unit on: what is returned, and the
\* defaults stored in defsettings on the way.
TickSettings(dayspan, settings, deflocation, location, definterval) ==
    [status     |-> Clamp(dayspan, location,
                          Effective(settings.IntervalTime, definterval)).status,
     span       |-> dayspan,
     location   |-> location,
     interval   |-> Clamp(dayspan, location,
                          Effective(settings.IntervalTime, definterval)).interval,
     tickformat |-> Effective(settings.FormatTime, deflocation[2]),
     tickspan   |-> Clamp(dayspan, location,
                          Effective(settings.IntervalTime, definterval)).interval
                      * unitlengths[location + 1],
     defaults   |-> [LocationTime |-> deflocation[1], FormatTime |-> deflocation[2],
                     IntervalTime |-> definterval]]

\* getTimeTickSettings(dayspan, settings, defsettings) with preferredcount 8.
getTimeTickSettings(dayspan, settings) ==
    TickSettings(dayspan, settings, DefaultLocation(dayspan),
                 Effective(settings.LocationTime, DefaultLocation(dayspan)[1]),
                 DefaultInterval(dayspan,
                     Effective(settings.LocationTime, DefaultLocation(dayspan)[1]), 8))

\* Spans on both sides of every threshold, up to four hundred years.
DaySpans ==
    {0, 1, 119, 120, 2 * MinutesPerDay - 1, 2 * MinutesPerDay,
     61 * MinutesPerDay - 1, 61 * MinutesPerDay, 730 * MinutesPerDay - 1,
     730 * MinutesPerDay, 9 * 365 * MinutesPerDay, 400 * 365 * MinutesPerDay}
\* The forced tick settings of an axis: each of unit, format and interval is
\* forced or left to the default.
TickNodes ==
    [LocationTime : {NoNum} \cup {Num(l) : l \in 0..4},
     FormatTime   : {NoNum, Num(4)},
     IntervalTime : {NoNum, Num(-1), Num(0), Num(1), Num(3), Num(200)}]
MinorTickNodes ==
    [LocationTime : {NoNum, Num(4)}, FormatTime : {NoNum}, IntervalTime : {NoNum, Num(1)}]

InitTicks ==
    /\ FigureInit
    /\ ret = Pending
    /\ \E dayspan \in DaySpans, major \in TickNodes, minor \in MinorTickNodes :
          call = [fn |-> "getTimeTickSettings", dayspan |-> dayspan,
                  TicksMajor |-> major, TicksMinor |-> minor]

\* Lines 1424-1426: the major ticks of a time axis.
CallMajorTicks ==
    /\ call.fn = "getTimeTickSettings"
    /\ ret = Pending
    /\ ret' = [ticks |-> "major"] @@ getTimeTickSettings(call.dayspan, call.TicksMajor)
    /\ UNCHANGED <<figvars, call>>

\* Lines 1430-1432: the minor ticks, within a major interval.
CallMinorTicks ==
    /\ call.fn = "getTimeTickSettings"
    /\ ret # Pending
    /\ ret.ticks = "major"
    /\ ret.status = "ok"
    /\ ret' = [ticks |-> "minor"]
                 @@ getTimeTickSettings(IF ret.tickspan < call.dayspan
                                        THEN ret.tickspan ELSE call.dayspan,
                                        call.TicksMinor)
    /\ UNCHANGED <<figvars, call>>

NextTicks == CallMajorTicks \/ CallMinorTicks

SpecTicks == InitTicks /\ [][NextTicks]_vars

\* getTimeTickSettings has returned for a span that is not negative; the
\* settings it was called with.
TicksReturned ==
    /\ call # NoCall
    /\ call.fn = "getTimeTickSettings"
    /\ ret # Pending
    /\ ret.status = "ok"
    /\ ret.span >= 0
TickNode == IF ret.ticks = "major" THEN call.TicksMajor ELSE call.TicksMinor
\* span / (unit length * interval) <= count, for an interval that is not 0.
AtMostTicks(count) ==
    IF ret.interval > 0
    THEN CeilDiv(CeilDiv(ret.span, unitlengths[ret.location + 1]), ret.interval) <= count
    ELSE ret.span >= 0

\* C23: whenever getTimeTickSettings returns for a span that is not negative,
\* whatever unit and interval are forced or left to the default, the span
\* holds at most 100 intervals of the returned unit.  With nothing forced the
\* unit is the year from 730 days on, the month from 61 days, the day from 2
\* days, the hour from 2 hours and the minute below, and the interval is at
\* least 1 and gives at most 8 ticks.
C23_AtMost100Ticks ==
    TicksReturned =>
        /\ AtMostTicks(100)
        /\ ret.location = Effective(TickNode.LocationTime, ret.defaults.LocationTime)
        /\ ret.defaults.LocationTime
              = IF ret.span >= 730 * MinutesPerDay THEN 0
                ELSE IF ret.span >= 61 * MinutesPerDay THEN 1
                ELSE IF ret.span >= 2 * MinutesPerDay THEN 2
                ELSE IF ret.span >= 120 THEN 3
                ELSE 4
        /\ ~TickNode.LocationTime.set /\ ~TickNode.IntervalTime.set
             => /\ ret.interval = ret.defaults.IntervalTime
                /\ ret.interval >= 1
                /\ AtMostTicks(8)

\* Nine years with major ticks forced to every third minute: the interval is
\* raised from 3 to 47304 minutes, a hundred ticks.
C23_Witness ==
    /\ TicksReturned
    /\ ret.ticks = "major"
    /\ call.dayspan = 9 * 365 * MinutesPerDay
    /\ call.TicksMajor.LocationTime = Num(4)
    /\ call.TicksMajor.IntervalTime = Num(3)
    /\ ret.interval = 47304

(* ---- getSlice of the transforms and of the merged variable -------------- *)
\* The source variable of a call, over "time" and "z" with two points each:
\* "valid" has data, "nodata" has a slice with no data, "empty" is a variable
\* with the base class's getSlice (an empty Slice()), "merged" is the merged
\* variable of two valid ones (dimensions obs, time, z).
TransformSource(source) ==
    IF source = "merged"
    THEN MergedVariable(
             [k \in 1..2 |->
                 PlainVariable("src", "source", <<"time", "z">>,
                     FlatSource([kind |-> "valid", dims |-> <<"time", "z">>,
                                 targetcount |-> 2, sourcecount |-> 2]))],
             "obs")
    ELSE PlainVariable("src", "source", <<"time", "z">>,
             FlatSource([kind |-> source, dims |-> <<"time", "z">>,
                         targetcount |-> 2, sourcecount |-> 2]))

\* The variable getSlice is called on: a transform of dimension dim of the
\* source (the slice at coordinate 2, the average, dim flattened into the
\* other dimension), or the source itself.
TransformVariable(c) ==
    CASE c.transform = "slice" ->
            VariableSlice(TransformSource(c.source), c.dim, 4).var
      [] c.transform = "average" ->
            VariableAverage(TransformSource(c.source), c.dim, 0, 0, Frac(1, 2)).var
      [] c.transform = "flat" ->
            VariableFlat(TransformSource(c.source), c.dim,
                         IF c.dim = "z" THEN "time" ELSE "z").var
      [] c.transform = "none" -> TransformSource(c.source)

\* The most bound pairs passed in a call.
MaxBounds == 4

InitTransform ==
    /\ FigureInit
    /\ ret = Pending
    /\ \E transform \in {"slice", "average", "flat", "none"},
          source \in {"valid", "nodata", "empty", "merged"},
          dim \in {"time", "z"}, nbounds \in 0..MaxBounds,
          bound \in {<<NoNum, NoNum>>, <<Num(0), Num(8)>>} :
          /\ nbounds = 0 => bound = <<NoNum, NoNum>>
          /\ call = [fn |-> "getSlice", transform |-> transform, source |-> source,
                     dim |-> dim, bounds |-> [i \in 1..nbounds |-> bound]]

CallGetSliceOf ==
    /\ call.fn = "getSlice"
    /\ ret = Pending
    /\ ret' = getSlice(TransformVariable(call), call.bounds)
    /\ UNCHANGED <<figvars, call>>

NextTransform == CallGetSliceOf

SpecTransform == InitTransform /\ [][NextTransform]_vars

\* getSlice has ended, with a slice or with an error.
TransformCalled == call # NoCall /\ call.fn = "getSlice" /\ ret # Pending

\* C24: getSlice of a slice-at-coordinate, average or flatten transform, or
\* of a merged variable, that is given a number of bound pairs different from
\* the number of dimensions of the variable ends with an error and returns
\* no slice.
C24_BoundsCountFatal ==
    /\ TransformCalled
    /\ call.transform = "none" => call.source = "merged"
    /\ Len(call.bounds) # Len(getDimensions(TransformVariable(call)))
    => ret.status # "ok"

\* C30: where the source's getSlice returns an invalid slice, getSlice of a
\* slice-at-coordinate, average or flatten transform (given one bound pair
\* per dimension) returns an invalid slice and does not fail.
C30_InvalidPropagates ==
    /\ TransformCalled
    /\ call.transform \in {"slice", "average", "flat"}
    /\ call.source \in {"nodata", "empty"}
    /\ Len(call.bounds) = Len(getDimensions(TransformVariable(call)))
    => ret.status = "ok" /\ ~isValid(ret.slice)

(* ---- Figure.update: the bounds of a series ------------------------------ *)
\* The forced ranges of the dimensions, as dim2data holds them before the
\* loop: none, a degenerate one, both ends or the lower end only.
ForcedRanges == {<<NoNum, NoNum>>, <<Num(2), Num(2)>>, <<Num(0), Num(4)>>, <<Num(2), NoNum>>}
ForcedDims == UNION {[D -> ForcedRanges] : D \in SUBSET DimNames}

InitBounds ==
    /\ FigureInit
    /\ ret = Pending
    /\ \E dims \in PlainDims, depth \in 0..2, forcedrange \in ForcedDims :
          call = [fn |-> "Figure.update.dimbounds", dims |-> dims, depth |-> depth,
                  forcedrange |-> forcedrange]

\* Lines 954-971 for the variable of one series.
CallBuildBounds ==
    /\ call.fn = "Figure.update.dimbounds"
    /\ ret = Pending
    /\ ret' = BuildBounds(SourceVariable(call), getDimensions(SourceVariable(call)),
                          call.forcedrange, <<>>)
    /\ UNCHANGED <<figvars, call>>

NextBounds == CallBuildBounds

SpecBounds == InitBounds /\ [][NextBounds]_vars

\* The bounds of a series have been built; the dimensions of its variable,
\* the forced range of each and the positions of the degenerate ones.
BoundsBuilt == call # NoCall /\ call.fn = "Figure.update.dimbounds" /\ ret # Pending
OriginalDims == getDimensions(SourceVariable(call))
ForcedOf(dimname) ==
    IF dimname \in DOMAIN call.forcedrange THEN call.forcedrange[dimname]
    ELSE <<NoNum, NoNum>>
DegenerateAt ==
    {i \in DOMAIN OriginalDims :
        ForcedOf(OriginalDims[i])[1].set
            /\ ForcedOf(OriginalDims[i])[1] = ForcedOf(OriginalDims[i])[2]}
OtherDims == SelectSeq([i \in DOMAIN OriginalDims |-> i], LAMBDA i : i \notin DegenerateAt)
\* The slice-at-coordinate transforms a variable is wrapped in.
RECURSIVE SliceWrappers(_)
SliceWrappers(var) ==
    IF var.kind = "slice" THEN 1 + SliceWrappers(var.sourcevar) ELSE 0

\* C25: where the bounds of a series are built to the end, the variable is
\* wrapped in one slice-at-coordinate transform for each dimension whose
\* forced range is degenerate (both ends set and equal), the bound pairs are
\* those of the other dimensions, one each in dimension order (None, None
\* where nothing is forced), and so there are as many bound pairs as the
\* variable getSlice is called on has dimensions.  They are built to the end
\* unless a dimension with a degenerate range occurs twice.
C25_OnePairPerDimension ==
    BoundsBuilt =>
        /\ ret.status = "ok" =>
              /\ SliceWrappers(ret.var) = Cardinality(DegenerateAt)
              /\ ret.dimbounds = [k \in DOMAIN OtherDims |-> ForcedOf(OriginalDims[OtherDims[k]])]
              /\ Len(ret.dimbounds) = Len(getDimensions(ret.var))
        /\ ret.status # "ok" =>
              \E i, j \in DegenerateAt : i # j /\ OriginalDims[i] = OriginalDims[j]

\* A variable over time and z of a merged store, time forced to the
\* coordinate 1 and z unforced: one wrapper and the pairs of obs and z.
C25_Witness ==
    /\ BoundsBuilt
    /\ call.dims = <<"time", "z">>
    /\ call.depth = 1
    /\ call.forcedrange = [time |-> <<Num(2), Num(2)>>, obs |-> <<Num(0), Num(4)>>]
    /\ ret.status = "ok"
    /\ ret.var.kind = "slice"
    /\ ret.dimbounds = <<<<Num(0), Num(4)>>, <<NoNum, NoNum>>>>

\* C26: a rebuild that completes deletes no user-set override: every Axis
\* entry of the forced tree before it is there after it with the same forced
\* values, so that a second rebuild plots the same series.
C26_OverridesKept ==
    [][out'.rebuilds = 1 /\ out'.status = "ok" =>
          /\ \A a \in DOMAIN forcedaxes :
                a \in DOMAIN forcedaxes' /\ forcedaxes'[a] = forcedaxes[a]
          /\ out.rebuilds = 1 /\ out.status = "ok" => canvas'.plotted = canvas.plotted]_vars

\* The label of a series the rebuild plotted: the long name of the variable
\* its path was resolved to.
LabelOf(varpath) ==
    LET k == CHOOSE k \in DOMAIN out.loop.resolved : out.loop.resolved[k][1] = varpath
    IN  getLongName(getVariable(Store(sources[out.loop.resolved[k][2]]), varpath[2]).var)
PlottedLabels == [k \in DOMAIN canvas.plotted |-> LabelOf(canvas.plotted[k])]

\* C27: after a completed rebuild the default title is made of the labels of
\* the series it plotted and of no other: empty when none was plotted, the
\* common label when all are the same, the labels joined by ', ' in series
\* order otherwise.
C27_TitleOfPlotted ==
    Completed =>
        defaulttitle = IF PlottedLabels = <<>> THEN <<>>
                       ELSE IF \A k \in DOMAIN PlottedLabels : PlottedLabels[k] = PlottedLabels[1]
                       THEN <<PlottedLabels[1]>>
                       ELSE PlottedLabels

\* C28: between the handlers, whatever setUpdating calls, update requests and
\* rebuilds (aborted ones too) came before, dirty is false whenever updates
\* are enabled: dirty is true only while updates are suspended.
C28_DirtyOnlySuspended == updating => ~dirty

\* A slice is shape-consistent: one coords and one coords_stag entry per
\* dimension, and along every dimension with 1-D coordinates as many centres
\* as data points and one interface more.
ShapeConsistent(s) ==
    /\ Len(s.coords) = s.ndim
    /\ Len(s.coords_stag) = s.ndim
    /\ Len(s.data.shape) = s.ndim
    /\ \A i \in 1..s.ndim :
          s.coords[i].set /\ s.coords[i].nd = 1 =>
              /\ Len(s.coords[i].v) = s.data.shape[i]
              /\ s.coords_stag[i].set
              /\ Len(s.coords_stag[i].v) = s.data.shape[i] + 1

\* C29: every valid slice that getSlice of a merged variable or of an average
\* or flatten transform returns over shape-consistent source slices is
\* shape-consistent.
C29_ShapeConsistent ==
    /\ call # NoCall
    /\ call.fn \in {"MergedVariable.getSlice", "VariableAverage.getSlice",
                    "VariableFlat.getSlice"}
    /\ ret # Pending
    /\ ret.status = "ok"
    /\ isValid(ret.slice)
    => ShapeConsistent(ret.slice)

====
